---- MODULE Spec2Model ----
(***************************************************************************)
(* Code graph index of jules_rag: the embedded store (code_intelligence/   *)
(* db.py), the incremental indexing pipeline (code_intelligence/           *)
(* indexing.py), the ANN index (code_intelligence/ann_index.py) and the    *)
(* retrieval engine (code_intelligence/retrieval.py).                      *)
(*                                                                         *)
(* The specifications share the store variables:                           *)
(*   SpecDb       - the Database methods called directly, in any order;    *)
(*   Spec         - FileIndexer.index_workspace passes over a changing     *)
(*                  file tree, with the worker-pool tasks interleaved at   *)
(*                  the granularity of one Database call (each call is one *)
(*                  SQLite transaction);                                   *)
(*   SpecSearch   - Database.search_nodes on an indexed store;             *)
(*   SpecAnn      - ANNIndex build, load and query, and _dense_search;     *)
(*   SpecRetrieve - RetrievalEngine.retrieve with failing providers;       *)
(*   SpecRank     - the fusion, MMR and LLM rerank functions on drawn      *)
(*                  inputs;                                                *)
(*   SpecParseFail, SpecStats - the passes of Spec over trees that hold a  *)
(*                  file whose parse fails, a file over the size cap or an *)
(*                  entry whose size cannot be read;                       *)
(*   SpecExpand   - _expand_graph on drawn candidate lists;                *)
(*   SpecHybrid   - the tasks of one hybrid_search call;                   *)
(*   SpecProvider, SpecMigrate, SpecRuns, SpecWalk - the provider calls,   *)
(*                  the schema migration, the index runs and the walk;     *)
(*   SpecSwap, SpecFresh - one retriever searched while the indexer        *)
(*                  rebuilds the sidecar.                                  *)
(***************************************************************************)
EXTENDS Integers, Sequences, FiniteSets, Bags, TLC

(***************************************************************************)
(* Bounds of the model.                                                    *)
(***************************************************************************)
\* files the tree can hold
NumFiles == 2
\* distinct non-empty contents a file can have
MaxContent == 2
\* direct Database calls explored by SpecDb
MaxOps == 4
\* vector components are drawn from 0..MaxVal
MaxVal == 1
\* vectors have 1..MaxDim components
MaxDim == 2
\* index_workspace passes explored by Spec
MaxPasses == 2
\* changes made to the file tree between passes
MaxEdits == 1
\* I/O errors, store faults and provider failures injected
MaxFaults == 1
\* chunks per embedding call (32 in the source, scaled down)
batch_size == 2
\* characters of a query string
MaxQueryLen == 2
\* calls made to a retriever by SpecSearch
MaxCalls == 2
\* ANNIndex(dim=1536), scaled down
dim == 2
\* calls of retrieve explored by SpecRetrieve
MaxRetrieves == 1
\* entries of a ranked list given to a ranking function
MaxList == 3
\* rebuilds of the sidecar by the indexer explored by SpecSwap
MaxRebuilds == 1
\* index runs created in SpecRuns
MaxRuns == 3
\* lines of a .gitignore
MaxLines == 2
\* candidates handed to the graph expansion
MaxCandidates == 6
\* sub-questions the decomposition of a query gives
MaxSubQuestions == 1
\* tokens of a text a provider answers with
MaxText == 3
\* requests a provider fails before it answers
MaxFails == 6
\* stop_after_attempt(5)
stop_after_attempt == 5
\* ThreadPoolExecutor(max_workers=4)
max_workers == 4

Files == 1..NumFiles
Absent == -1                       \* the file is not in the tree
Contents == 0..MaxContent          \* 0 is the empty text ""
\* the text "def sym1():" followed by one body line, and nothing else
TwoLiner == -2
Models == {"m1", "m2"}
embeddings_model == "m1"           \* settings.embeddings_model
None == "None"
\* Python's None where a node, a vector or a digest is expected
NoId == <<0, 0, 0>>
NoNode == [id |-> NoId, type |-> None, name |-> None, filepath |-> 0,
           content |-> [text |-> 0, from |-> 0, to |-> 0]]
NoVector == <<>>
NoHash == <<None, 0>>

(***************************************************************************)
(* File contents.  A content c is a text of 3*c lines; in a supported      *)
(* language it holds c top-level three-line definitions.  TwoLiner is a    *)
(* text of two lines that holds one top-level two-line function.           *)
(***************************************************************************)
NumLines(c) == IF c = TwoLiner THEN 2 ELSE 3 * c

\* hashlib.sha256(content).hexdigest(): distinct contents, distinct digests
sha256(c) == <<"sha256", c>>

\* FileIndexer.supported_extensions: odd files are ".py", even files ".txt"
supported_extensions(f) == IF f % 2 = 1 THEN "python" ELSE None

basename(f) == "file" \o ToString(f)

\* unresolved symbolic reference "symbol:<name>" to the name DefName(k), in
\* the shape of a node id
SymRef(k) == <<0, k, 0>>

Min(a, b) == IF a < b THEN a ELSE b
Max(a, b) == IF a > b THEN a ELSE b

\* FileIndexer._create_node
create_node(filepath, c, start_line, end_line, type, name) ==
    LET s == Max(0, start_line)
        e == Min(NumLines(c), end_line)
    IN [id |-> <<filepath, s, e>>, type |-> type, name |-> name,
        filepath |-> filepath,
        content |-> [text |-> c, from |-> s, to |-> e]]

\* the definitions the syntax tree of content c holds: the i-th one spans
\* lines 3(i-1) .. 3(i-1)+2
Definitions(c) == IF c = TwoLiner THEN {1} ELSE 1..c
DefStart(i) == 3 * (i - 1)
DefEnd(i) == 3 * (i - 1) + 2
\* node.end_point[0] - node.start_point[0] of definition i of content c
lines_count(c, i) == Min(NumLines(c) - 1, DefEnd(i)) - DefStart(i)
\* the parent of the definition is an export_statement: never in Python
is_exported(i) == FALSE
\* traverse drops a definition of fewer than three lines that is not exported
keeps_definition_over_three_lines(c, i) == ~(lines_count(c, i) < 3 /\ ~is_exported(i))
keeps_definition(c, i) == ~(lines_count(c, i) < 2 /\ ~is_exported(i))
DefType(i) == IF i % 2 = 1 THEN "function_definition" ELSE "class_definition"
DefName(i) == "sym" \o ToString(i)

\* a content whose traversal raises after its first definition was emitted
ParseRaises(c) == c >= 3
\* the smallest such content: nine lines, the traversal raises in its second
\* definition
Unparsable == 3
\* a file larger than the size cap rag_max_file_mb
Huge == -4
\* a directory entry whose size cannot be read (a dangling symbolic link)
Unstatable == -5

\* edges emitted for definition i of content c of file f, never to its own
\* name: a function calls the builtin sym0 and names the next class as a
\* type, a class calls the function before it
DefEdges(f, c, i) ==
    LET src == <<f, DefStart(i), Min(NumLines(c), DefEnd(i))>>
    IN IF i % 2 = 1
         THEN {<<src, SymRef(0), "calls">>, <<src, SymRef(i + 1), "uses_type">>}
         ELSE {<<src, SymRef(i - 1), "calls">>}

\* mutant: the nodes created before the failure are kept beside the text node
parse_file_content_keeps_partial(f, c) ==
    LET text_node == create_node(f, c, 0, NumLines(c), "text", "file")
        root_node == create_node(f, c, 0, NumLines(c), "file", basename(f))
        reached == IF ParseRaises(c) THEN {1} ELSE Definitions(c)
        done == {i \in reached : keeps_definition(c, i)}
        sym_nodes == {create_node(f, c, DefStart(i), DefEnd(i), DefType(i), DefName(i)) : i \in done}
        syms == {DefName(i) : i \in done}
        es == UNION {DefEdges(f, c, i) : i \in done}
    IN IF supported_extensions(f) = None
         THEN [nodes |-> {text_node}, symbols |-> {}, edges |-> {}]
       ELSE IF ParseRaises(c)
         THEN [nodes |-> {text_node} \cup sym_nodes, symbols |-> syms, edges |-> es]
       ELSE [nodes |-> {root_node} \cup sym_nodes, symbols |-> syms, edges |-> es]

\* FileIndexer._parse_file_content: [nodes, symbols, edges]
parse_file_content(f, c) ==
    LET text_node == create_node(f, c, 0, NumLines(c), "text", "file")
        root_node == create_node(f, c, 0, NumLines(c), "file", basename(f))
        reached == IF ParseRaises(c) THEN {1} ELSE Definitions(c)
        done == {i \in reached : keeps_definition(c, i)}
        sym_nodes == {create_node(f, c, DefStart(i), DefEnd(i), DefType(i), DefName(i)) : i \in done}
        syms == {DefName(i) : i \in done}
        es == UNION {DefEdges(f, c, i) : i \in done}
    IN IF supported_extensions(f) = None
         THEN [nodes |-> {text_node}, symbols |-> {}, edges |-> {}]
       ELSE IF ParseRaises(c)
         THEN [nodes |-> {text_node}, symbols |-> syms, edges |-> es]
       ELSE [nodes |-> {root_node} \cup sym_nodes, symbols |-> syms, edges |-> es]

(***************************************************************************)
(* Vectors.  A component is a double, modelled as an integer; float32      *)
(* keeps one bit less, so conversion clears the low bit.                   *)
(***************************************************************************)
Vectors == UNION {[1..d -> 0..MaxVal] : d \in 1..MaxDim}
float32(x) == (x \div 2) * 2
\* np.asarray(vector, dtype=np.float32)
asarray_float32(v) == [i \in DOMAIN v |-> float32(v[i])]

VARIABLES
    fs,            \* the file tree: fs[f] is a content, or Absent
    client,        \* EmbeddingsInterface.client is set (a provider is configured)
    nodes,         \* table nodes: id -> row
    nodes_fts,     \* table nodes_fts (FTS5, no key): a bag of rows
    edges,         \* table edges: set of <<source_id, target_id, relationship>>
    embeddings,    \* table embeddings: <<node_id, model>> -> [vector, dim]
    file_hashes,   \* table file_hashes: filepath -> hash
    index_runs,    \* table index_runs: sequence of [repo_root, status]
    repo_maps,     \* table repo_maps: run id -> payload
    sidecar,       \* the ANN sidecar files: vectors.bin and vectors.bin.map
    lastop,        \* the Database call (or step) the last transition made
    ops,           \* number of direct Database calls made (SpecDb)
    pc,            \* where index_workspace stands: "idle" when no pass runs
    force,         \* the force argument of the running pass
    run_id,        \* id of the index run of the running pass
    files_to_process, \* the files the walk collected, in submission order
    task,          \* per file: the state of its _process_file future
    collected,     \* number of futures whose result the pass has taken
    stats,         \* the statistics of the running (or last) pass
    batches,       \* embedding batches the sweep still has to send
    result,        \* how the last pass ended: returned its stats, or raised
    budget,        \* passes started, tree edits made, faults injected
    hist,          \* what the properties need of the past (see StartPass)
    engine,        \* a RetrievalEngine: its embedding cache and its ANNIndex
    now,           \* time.time(), in seconds
    arg,           \* the arguments of the call under way (SpecSearch, SpecRank)
    out            \* what the last call returned, or that it raised

store == <<nodes, nodes_fts, edges, embeddings, file_hashes, index_runs, repo_maps>>

(***************************************************************************)
(* Database: reads                                                         *)
(***************************************************************************)
get_node(node_id) == IF node_id \in DOMAIN nodes THEN nodes[node_id] ELSE NoNode

get_nodes_by_filepath(filepath) ==
    {nodes[id] : id \in {i \in DOMAIN nodes : nodes[i].filepath = filepath}}

IdsOfFile(filepath) == {id \in DOMAIN nodes : nodes[id].filepath = filepath}

get_file_hash(filepath) ==
    IF filepath \in DOMAIN file_hashes THEN file_hashes[filepath] ELSE NoHash

\* A query is a string over a small alphabet: a term stands for a run of
\* alphanumeric characters (a word), next to the blank, the parenthesis and
\* the double quote.
Terms == {"file"} \cup {basename(f) : f \in Files} \cup {DefName(i) : i \in 1..MaxContent}
QueryChars == Terms \cup {" ", "(", "\""}
Queries == UNION {[1..n -> QueryChars] : n \in 0..MaxQueryLen}
isalnum(ch) == ch \in Terms
isspace(ch) == ch = " "
CountOf(q, ch) == Cardinality({i \in DOMAIN q : q[i] = ch})

\* the words of a string: its maximal runs of alphanumeric characters
Words(q) ==
    {SubSeq(q, r[1], r[2]) : r \in
        {p \in (DOMAIN q) \X (DOMAIN q) :
            /\ p[1] <= p[2]
            /\ \A x \in p[1]..p[2] : isalnum(q[x])
            /\ (p[1] = 1 \/ ~isalnum(q[p[1] - 1]))
            /\ (p[2] = Len(q) \/ ~isalnum(q[p[2] + 1]))}}

\* the words of the text a node was cut from: the names defined in it and
\* the names its definitions refer to
ContentTerms(content) ==
    LET defs == {d \in Definitions(content.text) :
                    content.from <= DefStart(d) /\ DefStart(d) <= content.to}
    IN {DefName(i) : i \in defs}
         \cup {DefName(e[2][2]) : e \in UNION {DefEdges(0, content.text, i) : i \in defs}}

\* a word occurs in one of the columns of an FTS row (id, name, content,
\* filepath); a run of two terms is a longer word that occurs nowhere
Matches(row, term) ==
    \/ row.name = term
    \/ basename(row.id[1]) = term
    \/ term \in ContentTerms(row.content)

\* SQLite raises OperationalError on a MATCH string that is no FTS5 query:
\* an unbalanced parenthesis, an unterminated string, or no phrase at all
fts5_rejects(q) ==
    \/ CountOf(q, "(") > 0
    \/ CountOf(q, "\"") % 2 = 1
    \/ Words(q) = {} /\ CountOf(q, "\"") = 0

\* the ids of the rows that hold every word of the query
fts5_match(q) ==
    IF Words(q) = {} THEN {}
    ELSE {row.id : row \in {r \in BagToSet(nodes_fts) :
                              \A w \in Words(q) : Len(w) = 1 /\ Matches(r, w[1])}}

RECURSIVE replace_quotes(_)
\* query.replace('"', '""')
replace_quotes(q) ==
    IF q = <<>> THEN <<>>
    ELSE (IF Head(q) = "\"" THEN <<"\"", "\"">> ELSE <<Head(q)>>) \o replace_quotes(Tail(q))

\* "".join(c for c in safe_query if c.isalnum() or c.isspace())
sanitize(q) == SelectSeq(q, LAMBDA ch : isalnum(ch) \/ isspace(ch))

\* Database.search_nodes up to the id list: the MATCH strings it executed,
\* the ids found, and whether an OperationalError left the method
search_nodes_ids(query) ==
    LET safe_query == replace_quotes(query)
        sanitized == sanitize(safe_query)
    IN IF ~fts5_rejects(safe_query)
         THEN [raised |-> FALSE, executed |-> <<safe_query>>, ids |-> fts5_match(safe_query)]
       ELSE IF ~fts5_rejects(sanitized)
         THEN [raised |-> FALSE, executed |-> <<safe_query, sanitized>>,
               ids |-> fts5_match(sanitized)]
       ELSE [raised |-> TRUE, executed |-> <<safe_query, sanitized>>, ids |-> {}]

\* Database.search_nodes: ids matched in nodes_fts, then resolved by
\* get_node; the set of nodes of the list it returns
search_nodes(query) ==
    {nodes[id] : id \in search_nodes_ids(query).ids \cap DOMAIN nodes}

\* Database.get_embedding
get_embedding(node_id, model) ==
    IF <<node_id, model>> \notin DOMAIN embeddings THEN NoVector
    ELSE LET row == embeddings[<<node_id, model>>]
         IN IF row.dim # 0 /\ Len(row.vector) # row.dim
              THEN SubSeq(row.vector, 1, row.dim)
              ELSE row.vector

\* mutant: only the chunks of the files the running pass re-indexed
get_chunks_without_embeddings_of_pass(model) ==
    {nodes[id] : id \in {i \in DOMAIN nodes :
                           /\ <<i, model>> \notin DOMAIN embeddings
                           /\ nodes[i].type # "file"
                           /\ task[nodes[i].filepath].should_index}}

\* Database.get_chunks_without_embeddings
get_chunks_without_embeddings(model) ==
    {nodes[id] : id \in {i \in DOMAIN nodes :
                           <<i, model>> \notin DOMAIN embeddings /\ nodes[i].type # "file"}}

(***************************************************************************)
(* Database: writes.  Each is one transaction on the tables it names; the  *)
(* caller leaves the other tables unchanged.                               *)
(***************************************************************************)
FtsRow(n) == [id |-> n.id, name |-> n.name, content |-> n.content]
NodeRow(n) == [id |-> n.id, type |-> n.type, name |-> n.name, filepath |-> n.filepath,
               content |-> n.content]

\* Database.batch_add_nodes: INSERT OR REPLACE into nodes, INSERT into the
\* keyless FTS table
batch_add_nodes(ns) ==
    /\ nodes' = [id \in DOMAIN nodes \cup {n.id : n \in ns} |->
                   IF \E n \in ns : n.id = id
                     THEN NodeRow(CHOOSE n \in ns : n.id = id)
                     ELSE nodes[id]]
    /\ nodes_fts' = nodes_fts (+) SetToBag({FtsRow(n) : n \in ns})

\* Database.add_node
add_node(n) == batch_add_nodes({n})

\* Database.add_edge
add_edge(source_id, target_id, relationship) ==
    edges' = edges \cup {<<source_id, target_id, relationship>>}

\* mutant: the edges are deleted by source_id only
delete_nodes_by_filepath_source_only(filepath) ==
    LET ids == IdsOfFile(filepath)
    IN IF ids = {}
         THEN UNCHANGED <<nodes, nodes_fts, embeddings, edges>>
         ELSE /\ nodes' = [id \in DOMAIN nodes \ ids |-> nodes[id]]
              /\ nodes_fts' = [r \in {x \in DOMAIN nodes_fts : x.id \notin ids} |-> nodes_fts[r]]
              /\ embeddings' = [k \in {x \in DOMAIN embeddings : x[1] \notin ids} |-> embeddings[k]]
              /\ edges' = {e \in edges : e[1] \notin ids}

\* mutant: the DELETE statements lack their WHERE clause
delete_nodes_by_filepath_all(filepath) ==
    LET ids == IdsOfFile(filepath)
    IN IF ids = {}
         THEN UNCHANGED <<nodes, nodes_fts, embeddings, edges>>
         ELSE /\ nodes' = <<>>
              /\ nodes_fts' = EmptyBag
              /\ embeddings' = <<>>
              /\ edges' = {}

\* Database.delete_nodes_by_filepath
delete_nodes_by_filepath(filepath) ==
    LET ids == IdsOfFile(filepath)
    IN IF ids = {}
         THEN UNCHANGED <<nodes, nodes_fts, embeddings, edges>>
         ELSE /\ nodes' = [id \in DOMAIN nodes \ ids |-> nodes[id]]
              /\ nodes_fts' = [r \in {x \in DOMAIN nodes_fts : x.id \notin ids} |-> nodes_fts[r]]
              /\ embeddings' = [k \in {x \in DOMAIN embeddings : x[1] \notin ids} |-> embeddings[k]]
              /\ edges' = {e \in edges : e[1] \notin ids /\ e[2] \notin ids}

\* mutant: the row is keyed by node_id alone, so it is written under every model
upsert_embeddings_batch_any_model(updates) ==
    embeddings' = [k \in DOMAIN embeddings \cup {<<u[1], m>> : u \in updates, m \in Models} |->
                     IF \E u \in updates : u[1] = k[1]
                       THEN LET u == CHOOSE x \in updates : x[1] = k[1]
                                vec == asarray_float32(u[2])
                            IN [vector |-> vec, dim |-> Len(vec)]
                       ELSE embeddings[k]]

\* Database.upsert_embeddings_batch: updates is a set of <<node_id, vector, model>>
upsert_embeddings_batch(updates) ==
    embeddings' = [k \in DOMAIN embeddings \cup {<<u[1], u[3]>> : u \in updates} |->
                     IF \E u \in updates : <<u[1], u[3]>> = k
                       THEN LET u == CHOOSE x \in updates : <<x[1], x[3]>> = k
                                vec == asarray_float32(u[2])
                            IN [vector |-> vec, dim |-> Len(vec)]
                       ELSE embeddings[k]]

\* Database.upsert_embedding
upsert_embedding(node_id, model, vector) ==
    upsert_embeddings_batch({<<node_id, vector, model>>})

\* Database.set_file_hash
set_file_hash(filepath, file_hash) ==
    file_hashes' = [p \in DOMAIN file_hashes \cup {filepath} |->
                      IF p = filepath THEN file_hash ELSE file_hashes[p]]

(***************************************************************************)
(* Transition labels and the state after construction                      *)
(***************************************************************************)
NoIds == {}
\* label of a transition: the call made, the thread that made it, its arguments
\* and (for a deletion) the node ids it found for the file
Op(op, by, file, id, model, vector, ids) ==
    [op |-> op, by |-> by, file |-> file, id |-> id, model |-> model, vector |-> vector,
     ids |-> ids]
Step(op, by, file) == Op(op, by, file, NoId, "", <<>>, NoIds)

passvars == <<pc, force, run_id, files_to_process, task, collected, stats, batches,
              result, budget, hist>>

vars == <<fs, client, nodes, nodes_fts, edges, embeddings, file_hashes, index_runs,
          repo_maps, sidecar, lastop, ops, pc, force, run_id, files_to_process, task,
          collected, stats, batches, result, budget, hist, engine, now, arg, out>>

\* order of node ids: by file, then start line, then end line
IdBefore(a, b) ==
    \/ a[1] < b[1]
    \/ a[1] = b[1] /\ a[2] < b[2]
    \/ a[1] = b[1] /\ a[2] = b[2] /\ a[3] <= b[3]

RECURSIVE IdSeq(_)
\* the ids of a set in the order of the rows: by file, then by line
IdSeq(S) ==
    IF S = {} THEN <<>>
    ELSE LET m == CHOOSE x \in S : \A y \in S : IdBefore(x, y)
         IN <<m>> \o IdSeq(S \ {m})

\* a sidecar file: missing, unreadable ("corrupt"), or as save() wrote it;
\* the index file holds the vectors under the labels 1..n, the map file the
\* node id of every label
MissingFile == [state |-> "missing", rows |-> <<>>]
CorruptFile == [state |-> "corrupt", rows |-> <<>>]
SavedFile(rows) == [state |-> "saved", rows |-> rows]
NoSidecar == [bin |-> MissingFile, map |-> MissingFile]

\* the rows of the embeddings table for one model, as the SELECT returns
\* them: the node ids and, in the same order, the vectors
embedding_ids(model) == IdSeq({k[1] : k \in {x \in DOMAIN embeddings : x[2] = model}})
embedding_vecs(model) ==
    LET ids == embedding_ids(model)
    IN [i \in DOMAIN ids |-> embeddings[<<ids[i], model>>].vector]

\* the retriever's side: untouched by the Database calls and the indexer
retriever == <<engine, now, arg, out>>

\* ANNIndex.__init__: no index, an empty id map
\* (built: self.index is set; vecs: the vectors of the index, by label)
NewANNIndex(available) ==
    [available |-> available, built |-> FALSE, vecs |-> <<>>, id_map |-> <<>>]

\* RetrievalEngine.__init__: no cached matrix, no cached ids, timestamp 0
NewEngine(available) ==
    [cache_matrix |-> <<>>, cache_loaded |-> FALSE, cache_ids |-> <<>>,
     cache_timestamp |-> 0, ann_index |-> NewANNIndex(available)]

NoArg == [fn |-> "none"]
NoOut == [fn |-> "none", raised |-> FALSE]

\* no retriever call was made
IdleRetriever ==
    /\ engine = NewEngine(FALSE)
    /\ now = 0
    /\ arg = NoArg
    /\ out = NoOut

\* the state right after Database.__init__ on a fresh file
EmptyStore ==
    /\ nodes = <<>>
    /\ nodes_fts = EmptyBag
    /\ edges = {}
    /\ embeddings = <<>>
    /\ file_hashes = <<>>
    /\ index_runs = <<>>
    /\ repo_maps = <<>>

NoTask == [pc |-> "none", content |-> Absent, should_index |-> FALSE, todo |-> {},
           store_fault |-> FALSE]
ZeroStats == [indexed |-> 0, skipped |-> 0, errors |-> 0, deleted |-> 0]
\* history kept for the properties: whether the pass before the running one
\* returned, its error count and the tree it saw; the tree and the tables
\* at the start of the running pass; what happened in the running pass
NoHist == [prev_done |-> FALSE, prev_errors |-> 0,
           prev_fs |-> [f \in Files |-> Absent], start_fs |-> [f \in Files |-> Absent],
           nodes |-> <<>>, edges |-> {}, embeddings |-> <<>>, file_hashes |-> <<>>,
           swept |-> FALSE, batch_failed |-> FALSE, coord_fault |-> FALSE]

\* a FileIndexer on a fresh store, no pass started
IdlePass ==
    /\ pc = "idle"
    /\ force = FALSE
    /\ run_id = 0
    /\ files_to_process = <<>>
    /\ task = [f \in Files |-> NoTask]
    /\ collected = 0
    /\ stats = ZeroStats
    /\ batches = <<>>
    /\ result = [status |-> "none", stats |-> ZeroStats]
    /\ budget = [passes |-> 0, edits |-> 0, faults |-> 0]
    /\ hist = NoHist

(***************************************************************************)
(* SpecDb: the Database methods called directly on a freshly constructed   *)
(* store (tests/test_db.py drives the store this way).                     *)
(***************************************************************************)
\* the nodes, ids and edges the direct calls draw their arguments from
AllParsed == {parse_file_content(f, c) : f \in Files, c \in 1..MaxContent}
NodeUniverse == UNION {p.nodes : p \in AllParsed}
DbIds == {n.id : n \in {x \in NodeUniverse : x.content.text = 1 /\ x.type # "file"}}
EdgeUniverse == (UNION {p.edges : p \in AllParsed})
                   \cup {<<p[1], p[2], "calls">> : p \in {q \in DbIds \X DbIds : q[1] # q[2]}}

\* one more direct call; the indexer and the tree are not involved
DbCall ==
    /\ ops < MaxOps
    /\ ops' = ops + 1
    /\ UNCHANGED <<retriever, fs, client, sidecar, index_runs, repo_maps>>
    /\ UNCHANGED passvars

DbAddNode ==
    \E n \in NodeUniverse :
        /\ DbCall
        /\ add_node(n)
        /\ lastop' = Op("add_node", "api", n.filepath, n.id, "", <<>>, NoIds)
        /\ UNCHANGED <<edges, embeddings, file_hashes>>

DbAddEdge ==
    \E e \in EdgeUniverse :
        /\ DbCall
        /\ add_edge(e[1], e[2], e[3])
        /\ lastop' = Op("add_edge", "api", 0, e[1], "", <<>>, NoIds)
        /\ UNCHANGED <<nodes, nodes_fts, embeddings, file_hashes>>

DbDeleteNodes ==
    \E f \in Files :
        /\ DbCall
        /\ delete_nodes_by_filepath(f)
        /\ lastop' = Op("delete_nodes_by_filepath", "api", f, NoId, "", <<>>, IdsOfFile(f))
        /\ UNCHANGED <<file_hashes>>

DbUpsertEmbedding ==
    \E id \in DbIds, m \in Models, v \in Vectors :
        /\ DbCall
        /\ upsert_embedding(id, m, v)
        /\ lastop' = Op("upsert_embedding", "api", 0, id, m, v, NoIds)
        /\ UNCHANGED <<nodes, nodes_fts, edges, file_hashes>>

DbSetFileHash ==
    \E f \in Files, c \in 1..MaxContent :
        /\ DbCall
        /\ set_file_hash(f, sha256(c))
        /\ lastop' = Op("set_file_hash", "api", f, NoId, "", <<>>, NoIds)
        /\ UNCHANGED <<nodes, nodes_fts, edges, embeddings>>

InitDb ==
    /\ EmptyStore
    /\ IdlePass
    /\ fs = [f \in Files |-> Absent]
    /\ client = FALSE
    /\ sidecar = NoSidecar
    /\ IdleRetriever
    /\ lastop = Step("init", "api", 0)
    /\ ops = 0

NextDb ==
    \/ DbAddNode
    \/ DbAddEdge
    \/ DbDeleteNodes
    \/ DbUpsertEmbedding
    \/ DbSetFileHash

SpecDb == InitDb /\ [][NextDb]_vars

(***************************************************************************)
(* Spec: index_workspace passes.  The coordinator is the thread that calls *)
(* index_workspace; every _process_file runs on a pool thread.             *)
(***************************************************************************)
RECURSIVE SortedSeq(_)
\* the elements of a set of integers in ascending order
SortedSeq(S) ==
    IF S = {} THEN <<>>
    ELSE LET m == CHOOSE x \in S : \A y \in S : x <= y
         IN <<m>> \o SortedSeq(S \ {m})

\* mutant: only the first batch is cut
Batches_first_only(ids) ==
    IF ids = {} THEN <<>>
    ELSE <<CHOOSE B \in SUBSET ids :
             /\ Cardinality(B) = Min(batch_size, Cardinality(ids))
             /\ \A x \in B, y \in ids \ B : IdBefore(x, y)>>

RECURSIVE Batches(_)
\* range(0, len(nodes), batch_size): the ids cut into consecutive batches
Batches(ids) ==
    IF ids = {} THEN <<>>
    ELSE LET first == CHOOSE B \in SUBSET ids :
                        /\ Cardinality(B) = Min(batch_size, Cardinality(ids))
                        /\ \A x \in B, y \in ids \ B : IdBefore(x, y)
         IN <<first>> \o Batches(ids \ first)

\* the vector the provider returns for a chunk text
embed(n) == <<n.content.text % (MaxVal + 1)>>

Running == {f \in Files : task[f].pc \in {"delete", "insert", "edges", "hash"}}

\* the pool starts queued futures in submission order, max_workers at a time
CanStart(f) ==
    /\ pc = "collect"
    /\ task[f].pc = "queued"
    /\ Cardinality(Running) < max_workers
    /\ \A i \in 1..Len(files_to_process) :
         files_to_process[i] < f => task[files_to_process[i]].pc # "queued"

\* os.path.getsize(full_path) raises OSError
getsize_raises(c) == c = Unstatable
\* os.path.getsize(full_path) > settings.rag_max_file_mb * 1024 * 1024
too_large(c) == c = Huge

\* the walk: the files put on files_to_process
walk_files(tree) ==
    {f \in Files : tree[f] # Absent /\ ~getsize_raises(tree[f]) /\ ~too_large(tree[f])}

\* mutant: a file over the size cap is passed over without a count
walk_skipped_uncounted(tree) == 0

\* the walk: stats["skipped"] += 1 for every file over the size cap
walk_skipped(tree) ==
    Cardinality({f \in Files : tree[f] # Absent /\ ~getsize_raises(tree[f]) /\ too_large(tree[f])})

\* index_workspace up to the submission of the futures: create_index_run,
\* the walk, executor.submit for every file found
StartPass ==
    \E fc \in BOOLEAN :
        /\ pc = "idle"
        /\ budget.passes < MaxPasses
        /\ budget' = [budget EXCEPT !.passes = @ + 1]
        /\ force' = fc
        /\ index_runs' = Append(index_runs, [repo_root |-> "root", status |-> "pending"])
        /\ run_id' = Len(index_runs) + 1
        /\ files_to_process' = SortedSeq(walk_files(fs))
        /\ task' = [f \in Files |-> IF f \in walk_files(fs)
                                      THEN [NoTask EXCEPT !.pc = "queued"]
                                      ELSE NoTask]
        /\ collected' = 0
        /\ stats' = [ZeroStats EXCEPT !.skipped = walk_skipped(fs)]
        /\ batches' = <<>>
        /\ result' = [status |-> "none", stats |-> ZeroStats]
        /\ pc' = "collect"
        /\ hist' = [prev_done |-> (result.status = "returned"),
                    prev_errors |-> result.stats.errors,
                    prev_fs |-> hist.start_fs, start_fs |-> fs,
                    nodes |-> nodes, edges |-> edges, embeddings |-> embeddings,
                    file_hashes |-> file_hashes,
                    swept |-> FALSE, batch_failed |-> FALSE, coord_fault |-> FALSE]
        /\ lastop' = Step("create_index_run", "coordinator", 0)
        /\ UNCHANGED <<retriever, fs, client, nodes, nodes_fts, edges, embeddings, file_hashes,
                       repo_maps, sidecar, ops>>

\* mutant: the stored hash is not consulted
should_index_always(f, c) == TRUE

\* _process_file: should_index = force or (existing_hash != file_hash)
should_index(f, c) == force \/ get_file_hash(f) # sha256(c)

\* _process_file up to the decision: read, hash, get_file_hash, parse; an
\* unchanged file returns (False, entries) at once
TaskRead(f) ==
    /\ CanStart(f)
    /\ LET c == fs[f]
       IN task' = [task EXCEPT ![f] =
                     IF should_index(f, c)
                       THEN [pc |-> "delete", content |-> c, should_index |-> TRUE,
                             todo |-> parse_file_content(f, c).edges, store_fault |-> FALSE]
                       ELSE [pc |-> "done", content |-> c, should_index |-> FALSE,
                             todo |-> {}, store_fault |-> FALSE]]
    /\ lastop' = Step("read", "worker", f)
    /\ UNCHANGED <<retriever, fs, client, store, sidecar, ops, pc, force, run_id, files_to_process,
                   collected, stats, batches, result, budget, hist>>

\* _process_file: self.db.delete_nodes_by_filepath(rel_path)
TaskDelete(f) ==
    /\ task[f].pc = "delete"
    /\ delete_nodes_by_filepath(f)
    /\ task' = [task EXCEPT ![f].pc = "insert"]
    /\ lastop' = Op("delete_nodes_by_filepath", "worker", f, NoId, "", <<>>, IdsOfFile(f))
    /\ UNCHANGED <<retriever, fs, client, file_hashes, index_runs, repo_maps, sidecar, ops, pc, force,
                   run_id, files_to_process, collected, stats, batches, result, budget, hist>>

\* _process_file: self.db.batch_add_nodes(nodes)
TaskInsert(f) ==
    /\ task[f].pc = "insert"
    /\ batch_add_nodes(parse_file_content(f, task[f].content).nodes)
    /\ task' = [task EXCEPT ![f].pc = IF task[f].todo = {} THEN "hash" ELSE "edges"]
    /\ lastop' = Step("batch_add_nodes", "worker", f)
    /\ UNCHANGED <<retriever, fs, client, edges, embeddings, file_hashes, index_runs, repo_maps,
                   sidecar, ops, pc, force, run_id, files_to_process, collected, stats,
                   batches, result, budget, hist>>

\* _process_file: one turn of "for src, tgt, rel, props in edges: add_edge"
TaskAddEdge(f) ==
    /\ task[f].pc = "edges"
    /\ LET e == CHOOSE x \in task[f].todo :
                  \A y \in task[f].todo : IdBefore(x[1], y[1]) /\ (x[1] = y[1] => IdBefore(x[2], y[2]))
       IN /\ add_edge(e[1], e[2], e[3])
          /\ task' = [task EXCEPT ![f].todo = @ \ {e},
                                  ![f].pc = IF task[f].todo = {e} THEN "hash" ELSE "edges"]
    /\ lastop' = Step("add_edge", "worker", f)
    /\ UNCHANGED <<retriever, fs, client, nodes, nodes_fts, embeddings, file_hashes, index_runs,
                   repo_maps, sidecar, ops, pc, force, run_id, files_to_process, collected,
                   stats, batches, result, budget, hist>>

\* _process_file: self.db.set_file_hash(rel_path, file_hash); return (True, entries)
TaskSetHash(f) ==
    /\ task[f].pc = "hash"
    /\ set_file_hash(f, sha256(task[f].content))
    /\ task' = [task EXCEPT ![f].pc = "done"]
    /\ lastop' = Step("set_file_hash", "worker", f)
    /\ UNCHANGED <<retriever, fs, client, nodes, nodes_fts, edges, embeddings, index_runs, repo_maps,
                   sidecar, ops, pc, force, run_id, files_to_process, collected, stats,
                   batches, result, budget, hist>>

\* _process_file raises: open() fails, or the Database call the task is about
\* to make fails and its transaction is rolled back
TaskRaise(f) ==
    /\ budget.faults < MaxFaults
    /\ CanStart(f) \/ f \in Running
    /\ budget' = [budget EXCEPT !.faults = @ + 1]
    /\ task' = [task EXCEPT ![f].pc = "failed", ![f].store_fault = (f \in Running)]
    /\ lastop' = Step("raise", "worker", f)
    /\ UNCHANGED <<retriever, fs, client, store, sidecar, ops, pc, force, run_id, files_to_process,
                   collected, stats, batches, result, hist>>

\* mutant: the exception of a failed future is not caught
Collect_propagates ==
    /\ pc = "collect"
    /\ collected < Len(files_to_process)
    /\ LET f == files_to_process[collected + 1]
       IN /\ task[f].pc \in {"done", "failed"}
          /\ IF task[f].pc = "failed"
               THEN /\ pc' = "idle"
                    /\ result' = [status |-> "raised", stats |-> stats]
                    /\ lastop' = Step("raise", "coordinator", f)
                    /\ UNCHANGED stats
               ELSE /\ stats' = IF task[f].should_index THEN [stats EXCEPT !.indexed = @ + 1]
                                ELSE [stats EXCEPT !.skipped = @ + 1]
                    /\ lastop' = Step("result", "coordinator", f)
                    /\ UNCHANGED <<pc, result>>
    /\ collected' = collected + 1
    /\ UNCHANGED <<retriever, fs, client, store, sidecar, ops, force, run_id, files_to_process,
                   task, batches, budget, hist>>

\* index_workspace: one turn of "for future in futures: future.result()"
Collect ==
    /\ pc = "collect"
    /\ collected < Len(files_to_process)
    /\ LET f == files_to_process[collected + 1]
       IN /\ task[f].pc \in {"done", "failed"}
          /\ stats' = IF task[f].pc = "failed" THEN [stats EXCEPT !.errors = @ + 1]
                      ELSE IF task[f].should_index THEN [stats EXCEPT !.indexed = @ + 1]
                      ELSE [stats EXCEPT !.skipped = @ + 1]
          /\ lastop' = Step("result", "coordinator", f)
    /\ collected' = collected + 1
    /\ UNCHANGED <<retriever, fs, client, store, sidecar, ops, pc, force, run_id, files_to_process,
                   task, batches, result, budget, hist>>

\* index_workspace: self.db.store_repo_map(run_id, payload, entries)
StoreRepoMap ==
    /\ pc = "collect"
    /\ collected = Len(files_to_process)
    /\ repo_maps' = [r \in DOMAIN repo_maps \cup {run_id} |->
                       IF r = run_id THEN [repo_root |-> "root", generated_at |-> run_id]
                       ELSE repo_maps[r]]
    /\ pc' = "complete"
    /\ lastop' = Step("store_repo_map", "coordinator", 0)
    /\ UNCHANGED <<retriever, fs, client, nodes, nodes_fts, edges, embeddings, file_hashes, index_runs,
                   sidecar, ops, force, run_id, files_to_process, task, collected, stats,
                   batches, result, budget, hist>>

\* Database.complete_index_run
complete_index_run(id, status) ==
    index_runs' = [index_runs EXCEPT ![id].status = status]

\* index_workspace: self.db.complete_index_run(run_id, "success")
CompleteRun ==
    /\ pc = "complete"
    /\ complete_index_run(run_id, "success")
    /\ pc' = "sweep"
    /\ lastop' = Step("complete_index_run", "coordinator", 0)
    /\ UNCHANGED <<retriever, fs, client, nodes, nodes_fts, edges, embeddings, file_hashes, repo_maps,
                   sidecar, ops, force, run_id, files_to_process, task, collected, stats,
                   batches, result, budget, hist>>

\* _generate_embeddings: fetch the chunks without a vector and cut them into
\* batches; without a provider nothing is embedded
SweepStart ==
    /\ pc = "sweep"
    /\ LET missing == {n.id : n \in get_chunks_without_embeddings(embeddings_model)}
       IN batches' = IF missing # {} /\ client THEN Batches(missing) ELSE <<>>
    /\ pc' = "embed"
    /\ hist' = [hist EXCEPT !.swept = client]
    /\ lastop' = Step("get_chunks_without_embeddings", "coordinator", 0)
    /\ UNCHANGED <<retriever, fs, client, store, sidecar, ops, force, run_id, files_to_process, task,
                   collected, stats, result, budget>>

\* _generate_embeddings: one batch embedded and persisted
EmbedBatch ==
    /\ pc = "embed"
    /\ batches # <<>>
    /\ upsert_embeddings_batch({<<id, embed(nodes[id]), embeddings_model>> : id \in Head(batches)})
    /\ batches' = Tail(batches)
    /\ lastop' = Step("upsert_embeddings_batch", "coordinator", 0)
    /\ UNCHANGED <<retriever, fs, client, nodes, nodes_fts, edges, file_hashes, index_runs, repo_maps,
                   sidecar, ops, pc, force, run_id, files_to_process, task, collected,
                   stats, result, budget, hist>>

\* _generate_embeddings: embed() or the upsert raises; the batch is logged
\* and dropped
EmbedBatchFails ==
    /\ pc = "embed"
    /\ batches # <<>>
    /\ budget.faults < MaxFaults
    /\ budget' = [budget EXCEPT !.faults = @ + 1]
    /\ batches' = Tail(batches)
    /\ hist' = [hist EXCEPT !.batch_failed = TRUE]
    /\ lastop' = Step("embed_failed", "coordinator", 0)
    /\ UNCHANGED <<retriever, fs, client, store, sidecar, ops, pc, force, run_id, files_to_process,
                   task, collected, stats, result>>

\* _generate_embeddings: rebuild the ANN sidecar from all vectors of the
\* model; index_workspace then returns its statistics
RebuildAndReturn ==
    /\ pc = "embed"
    /\ batches = <<>>
    /\ LET ids == embedding_ids(embeddings_model)
       IN sidecar' = IF ids # <<>>
                       THEN [bin |-> SavedFile(embedding_vecs(embeddings_model)),
                             map |-> SavedFile(ids)]
                       ELSE sidecar
    /\ pc' = "idle"
    /\ result' = [status |-> "returned", stats |-> stats]
    /\ lastop' = Step("return", "coordinator", 0)
    /\ UNCHANGED <<retriever, fs, client, store, ops, force, run_id, files_to_process, task,
                   collected, stats, batches, budget, hist>>

\* a Database call of the coordinator fails: index_workspace raises
CoordRaise ==
    /\ budget.faults < MaxFaults
    /\ \/ pc = "collect" /\ collected = Len(files_to_process)
       \/ pc \in {"complete", "sweep"}
       \/ pc = "embed" /\ batches = <<>>
    /\ budget' = [budget EXCEPT !.faults = @ + 1]
    /\ pc' = "idle"
    /\ result' = [status |-> "raised", stats |-> stats]
    /\ hist' = [hist EXCEPT !.coord_fault = TRUE]
    /\ lastop' = Step("raise", "coordinator", 0)
    /\ UNCHANGED <<retriever, fs, client, store, sidecar, ops, force, run_id, files_to_process, task,
                   collected, stats, batches>>

\* between passes a file is created, rewritten, emptied or deleted
Edit ==
    \E f \in Files, c \in Contents \cup {TwoLiner, Absent} :
        /\ pc = "idle"
        /\ budget.edits < MaxEdits
        /\ c # fs[f]
        /\ fs' = [fs EXCEPT ![f] = c]
        /\ budget' = [budget EXCEPT !.edits = @ + 1]
        /\ lastop' = Step("edit", "user", f)
        /\ UNCHANGED <<retriever, client, store, sidecar, ops, pc, force, run_id, files_to_process,
                       task, collected, stats, batches, result, hist>>

\* a fresh store and a tree in which every file is either missing or holds
\* its first content; Edit produces the other trees
Init ==
    /\ EmptyStore
    /\ IdlePass
    /\ fs \in [Files -> {Absent, 1}]
    /\ client \in BOOLEAN
    /\ sidecar = NoSidecar
    /\ IdleRetriever
    /\ lastop = Step("init", "api", 0)
    /\ ops = 0

Next ==
    \/ StartPass
    \/ \E f \in Files : TaskRead(f)
    \/ \E f \in Files : TaskDelete(f)
    \/ \E f \in Files : TaskInsert(f)
    \/ \E f \in Files : TaskAddEdge(f)
    \/ \E f \in Files : TaskSetHash(f)
    \/ \E f \in Files : TaskRaise(f)
    \/ Collect
    \/ StoreRepoMap
    \/ CompleteRun
    \/ SweepStart
    \/ EmbedBatch
    \/ EmbedBatchFails
    \/ RebuildAndReturn
    \/ CoordRaise
    \/ Edit

Spec == Init /\ [][Next]_vars

\* the passes over a tree that holds a source file whose parse fails
InitParseFail ==
    /\ EmptyStore
    /\ IdlePass
    /\ fs \in [Files -> {Absent, 1, Unparsable}]
    /\ \E f \in Files : supported_extensions(f) # None /\ fs[f] = Unparsable
    /\ client \in BOOLEAN
    /\ sidecar = NoSidecar
    /\ IdleRetriever
    /\ lastop = Step("init", "api", 0)
    /\ ops = 0

SpecParseFail == InitParseFail /\ [][Next]_vars

\* the passes over a tree that holds a file over the size cap or an entry
\* whose size cannot be read
InitStats ==
    /\ EmptyStore
    /\ IdlePass
    /\ fs \in [Files -> {Absent, 1, Huge, Unstatable}]
    /\ \E f \in Files : fs[f] \in {Huge, Unstatable}
    /\ client \in BOOLEAN
    /\ sidecar = NoSidecar
    /\ IdleRetriever
    /\ lastop = Step("init", "api", 0)
    /\ ops = 0

SpecStats == InitStats /\ [][Next]_vars

(***************************************************************************)
(* ANNIndex and the dense search of RetrievalEngine.  Numbers are fixed    *)
(* point: a vector component of Unit is 1.0, a score of Scale is 1.0.      *)
(***************************************************************************)
Unit == 10
Scale == 6000
retrieval_enable_ann == TRUE
cache_ttl == 60

RECURSIVE dot(_, _)
\* np.dot of two vectors of one length
dot(u, v) == IF u = <<>> THEN 0 ELSE Head(u) * Head(v) + dot(Tail(u), Tail(v))

isqrt(n) == CHOOSE r \in 0..n : r * r <= n /\ (r + 1) * (r + 1) > n

\* np.linalg.norm
norm(v) == isqrt(dot(v, v))

\* cosine similarity of two vectors, each divided by its norm (plus an
\* epsilon, which makes the similarity to a zero vector 0)
cosine(u, v) ==
    IF norm(u) = 0 \/ norm(v) = 0 THEN 0
    ELSE (dot(u, v) * Scale) \div (norm(u) * norm(v))

RECURSIVE SortDesc(_)
\* list.sort(key=score, reverse=True): stable, equal scores keep their order
SortDesc(s) ==
    IF s = <<>> THEN <<>>
    ELSE LET m == CHOOSE i \in DOMAIN s :
                      /\ \A j \in DOMAIN s : s[j].score <= s[i].score
                      /\ \A j \in 1..(i - 1) : s[j].score < s[i].score
         IN <<s[m]>> \o SortDesc(SubSeq(s, 1, m - 1) \o SubSeq(s, m + 1, Len(s)))

\* s[:k] for k >= 0
Prefix(s, k) == SubSeq(s, 1, Min(k, Len(s)))

\* the hits whose node the store still has (get_node is not None)
WithNode(hits) == SelectSeq(hits, LAMBDA h : h.id \in DOMAIN nodes)

\* a load whose reads are not guarded: an unreadable file raises
ann_load_unguarded(ann, files) ==
    IF ~ann.available THEN [raised |-> FALSE, ok |-> FALSE, ann |-> ann]
    ELSE IF files.bin.state = "missing" \/ files.map.state = "missing"
      THEN [raised |-> FALSE, ok |-> FALSE, ann |-> ann]
    ELSE IF files.map.state = "corrupt" \/ files.bin.state = "corrupt"
      THEN [raised |-> TRUE, ok |-> FALSE, ann |-> ann]
    ELSE [raised |-> FALSE, ok |-> TRUE,
          ann |-> [ann EXCEPT !.id_map = files.map.rows, !.vecs = files.bin.rows,
                              !.built = TRUE]]
\* ANNIndex.load: False when unavailable or a file is missing; the id map is
\* read first, so an unreadable index file leaves the read map behind
ann_load(ann, files) ==
    IF ~ann.available THEN [raised |-> FALSE, ok |-> FALSE, ann |-> ann]
    ELSE IF files.bin.state = "missing" \/ files.map.state = "missing"
      THEN [raised |-> FALSE, ok |-> FALSE, ann |-> ann]
    ELSE IF files.map.state = "corrupt" THEN [raised |-> FALSE, ok |-> FALSE, ann |-> ann]
    ELSE IF files.bin.state = "corrupt"
      THEN [raised |-> FALSE, ok |-> FALSE, ann |-> [ann EXCEPT !.id_map = files.map.rows]]
    ELSE [raised |-> FALSE, ok |-> TRUE,
          ann |-> [ann EXCEPT !.id_map = files.map.rows, !.vecs = files.bin.rows,
                              !.built = TRUE]]

\* add_items refuses rows that are not of the dimension of the index
add_items_raises(vectors) == \E i \in DOMAIN vectors : Len(vectors[i]) # dim

\* ANNIndex.save: both files, or nothing when the disk fails (caught)
ann_save(ann, files, disk_ok) ==
    IF ~ann.built \/ ~disk_ok THEN files
    ELSE [bin |-> SavedFile(ann.vecs), map |-> SavedFile(ann.id_map)]

\* ANNIndex.build
ann_build(ann, files, vectors, ids, disk_ok) ==
    IF ~ann.available \/ Len(ids) = 0
      THEN [raised |-> FALSE, ann |-> ann, files |-> files]
    ELSE IF add_items_raises(vectors)
      THEN [raised |-> TRUE, ann |-> ann, files |-> files]
    ELSE LET p == [ann EXCEPT !.built = TRUE, !.vecs = vectors, !.id_map = ids]
         IN [raised |-> FALSE, ann |-> p, files |-> ann_save(p, files, disk_ok)]

\* knn_query raises on a vector of another dimension and when the index
\* holds fewer than k elements
knn_query_raises(ann, vector, k) == Len(vector) # dim \/ k > Len(ann.vecs)

\* ANNIndex.query: the k nearest labels, nearest first, as (node id,
\* 1 - distance); a label the id map does not know is left out
ann_query(ann, vector, k) ==
    IF ~ann.available \/ ~ann.built THEN [raised |-> FALSE, hits |-> <<>>]
    ELSE IF knn_query_raises(ann, vector, k) THEN [raised |-> TRUE, hits |-> <<>>]
    ELSE LET all == [l \in DOMAIN ann.vecs |->
                        [label |-> l, score |-> cosine(ann.vecs[l], vector)]]
             nearest == Prefix(SortDesc(all), k)
             known == SelectSeq(nearest, LAMBDA h : h.label \in DOMAIN ann.id_map)
         IN [raised |-> FALSE,
             hits |-> [i \in DOMAIN known |->
                          [id |-> ann.id_map[known[i].label], score |-> known[i].score]]]

\* np.vstack refuses rows of different lengths
vstack_raises(vecs) == \E i, j \in DOMAIN vecs : Len(vecs[i]) # Len(vecs[j])

\* RetrievalEngine._refresh_cache_if_needed: the cache is kept for 60 s;
\* the ids are assigned before the matrix is stacked
refresh_cache(e) ==
    IF e.cache_loaded /\ now - e.cache_timestamp < cache_ttl
      THEN [raised |-> FALSE, engine |-> e]
    ELSE LET ids == embedding_ids(embeddings_model)
             vecs == embedding_vecs(embeddings_model)
         IN IF ids = <<>>
              THEN [raised |-> FALSE,
                    engine |-> [e EXCEPT !.cache_loaded = FALSE, !.cache_matrix = <<>>,
                                         !.cache_ids = <<>>, !.cache_timestamp = now]]
            ELSE IF vstack_raises(vecs)
              THEN [raised |-> TRUE, engine |-> [e EXCEPT !.cache_ids = ids]]
            ELSE [raised |-> FALSE,
                  engine |-> [e EXCEPT !.cache_loaded = TRUE, !.cache_matrix = vecs,
                                       !.cache_ids = ids, !.cache_timestamp = now]]

\* the rows in descending order of score; of equal scores the later row
\* comes first (a stable ascending argsort, reversed)
argsort_desc(scores) ==
    LET rev == [i \in DOMAIN scores |->
                   [idx |-> Len(scores) + 1 - i, score |-> scores[Len(scores) + 1 - i]]]
    IN SortDesc(rev)

\* RetrievalEngine._brute_force_search: the query is normalised, the rows
\* of the cache are taken as they are
brute_force_search(e, vector, k) ==
    LET r == refresh_cache(e)
        c == r.engine
    IN IF r.raised THEN [raised |-> TRUE, hits |-> <<>>, engine |-> c]
       ELSE IF ~c.cache_loaded THEN [raised |-> FALSE, hits |-> <<>>, engine |-> c]
       ELSE IF \E i \in DOMAIN c.cache_matrix : Len(c.cache_matrix[i]) # Len(vector)
         THEN [raised |-> TRUE, hits |-> <<>>, engine |-> c]
       ELSE LET scores == [i \in DOMAIN c.cache_matrix |->
                              IF norm(vector) = 0 THEN 0
                              ELSE (dot(c.cache_matrix[i], vector) * Scale)
                                       \div (Unit * norm(vector))]
                top == Prefix(argsort_desc(scores), k)
            IN [raised |-> FALSE,
                hits |-> WithNode([i \in DOMAIN top |->
                                      [id |-> c.cache_ids[top[i].idx],
                                       score |-> top[i].score]]),
                engine |-> c]

\* RetrievalEngine._dense_search up to the choice of the path: the index is
\* loaded or, failing that, built from the refreshed cache
prepare_index(e, files, disk_ok) ==
    IF ~(retrieval_enable_ann /\ e.ann_index.available) \/ e.ann_index.built
      THEN [raised |-> FALSE, engine |-> e, files |-> files]
    ELSE LET l == ann_load(e.ann_index, files)
             e1 == [e EXCEPT !.ann_index = l.ann]
         IN IF l.ok THEN [raised |-> FALSE, engine |-> e1, files |-> files]
            ELSE LET r == refresh_cache(e1)
                     e2 == r.engine
                 IN IF r.raised \/ ~e2.cache_loaded
                      THEN [raised |-> r.raised, engine |-> e2, files |-> files]
                    ELSE LET b == ann_build(e2.ann_index, files, e2.cache_matrix,
                                            e2.cache_ids, disk_ok)
                         IN [raised |-> b.raised,
                             engine |-> [e2 EXCEPT !.ann_index = b.ann],
                             files |-> b.files]

\* RetrievalEngine._dense_search
dense_search(e, files, vector, k, disk_ok) ==
    LET p == prepare_index(e, files, disk_ok)
    IN IF p.raised
         THEN [raised |-> TRUE, hits |-> <<>>, engine |-> p.engine, files |-> p.files]
       ELSE IF retrieval_enable_ann /\ p.engine.ann_index.available
               /\ p.engine.ann_index.built
         THEN LET q == ann_query(p.engine.ann_index, vector, k)
              IN [raised |-> q.raised, hits |-> WithNode(q.hits),
                  engine |-> p.engine, files |-> p.files]
       ELSE LET b == brute_force_search(p.engine, vector, k)
            IN [raised |-> b.raised, hits |-> b.hits, engine |-> b.engine,
                files |-> p.files]

(***************************************************************************)
(* RetrievalEngine.retrieve, stage by stage.  A candidate is a             *)
(* SearchResult: [id, score, reason], its node being nodes[id].            *)
(***************************************************************************)
retrieval_k == 10
retrieval_mmr_lambda == 5

\* ORDER BY bm25(nodes_fts): a row that holds the word in its name before a
\* row that holds it in its text only, a shorter text before a longer one
bm25_before(a, b, words) ==
    LET rank(id) == <<IF \E w \in words : w = <<nodes[id].name>> THEN 0 ELSE 1,
                      nodes[id].content.to - nodes[id].content.from>>
    IN \/ rank(a)[1] < rank(b)[1]
       \/ rank(a)[1] = rank(b)[1] /\ rank(a)[2] < rank(b)[2]
       \/ rank(a) = rank(b) /\ IdBefore(a, b)

RECURSIVE bm25_order(_, _)
bm25_order(S, words) ==
    IF S = {} THEN <<>>
    ELSE LET m == CHOOSE x \in S : \A y \in S : bm25_before(x, y, words)
         IN <<m>> \o bm25_order(S \ {m}, words)

\* Database.search_nodes(query, limit): the ids of the nodes returned, best
\* first, or that it raised
search_nodes_ranked(query, limit) ==
    LET r == search_nodes_ids(query)
    IN [raised |-> r.raised,
        ids |-> Prefix(bm25_order(r.ids \cap DOMAIN nodes, Words(r.executed[Len(r.executed)])),
                       limit)]

\* retrieve, stage 1: score 1 / (i + 1) for the i-th sparse hit
sparse_results(ids) ==
    [i \in DOMAIN ids |-> [id |-> ids[i], score |-> Scale \div i, reason |-> "sparse"]]

RECURSIVE comb_sum(_, _)
\* retrieve, stage 2: a dense hit adds its score to the candidate of the
\* same node, or becomes a candidate
comb_sum(all_results, dense_hits) ==
    IF dense_hits = <<>> THEN all_results
    ELSE LET h == Head(dense_hits)
             at == {i \in DOMAIN all_results : all_results[i].id = h.id}
         IN comb_sum(IF at = {}
                       THEN Append(all_results,
                                   [id |-> h.id, score |-> h.score, reason |-> "dense"])
                       ELSE [i \in DOMAIN all_results |->
                                IF i \in at
                                  THEN [all_results[i] EXCEPT !.score = @ + h.score,
                                                              !.reason = "hybrid"]
                                  ELSE all_results[i]],
                     Tail(dense_hits))

\* the fused candidates: sorted by descending score, at most 50
fuse(sparse_ids, dense_hits) ==
    Prefix(SortDesc(comb_sum(sparse_results(sparse_ids), dense_hits)), 50)

IdsOf(cands) == {cands[i].id : i \in DOMAIN cands}

\* a reference "symbol:<name>" and the name it holds
IsSymRef(t) == t[1] = 0 /\ t[3] = 0
SymName(t) == DefName(t[2])

RECURSIVE add_unseen(_, _, _, _, _)
\* appends a result for every listed node that was not seen and is stored
add_unseen(expanded, seen, ids, score, reason) ==
    IF ids = <<>> THEN expanded
    ELSE IF Head(ids) \in seen \cup IdsOf(expanded) \/ Head(ids) \notin DOMAIN nodes
      THEN add_unseen(expanded, seen, Tail(ids), score, reason)
    ELSE add_unseen(Append(expanded, [id |-> Head(ids), score |-> score, reason |-> reason]),
                    seen, Tail(ids), score, reason)

\* SELECT id FROM nodes WHERE name = ? LIMIT 1, for every type a seed uses
type_nodes(seed) ==
    LET names == {SymName(e[2]) : e \in {x \in edges : x[1] = seed.id /\ x[3] = "uses_type"
                                                       /\ IsSymRef(x[2])}}
        found == {n \in names : \E id \in DOMAIN nodes : nodes[id].name = n}
    IN IdSeq({CHOOSE id \in DOMAIN nodes :
                 /\ nodes[id].name = n
                 /\ \A o \in DOMAIN nodes : nodes[o].name = n => IdBefore(id, o)
              : n \in found})

\* SELECT source_id FROM edges WHERE target_id = symbol:<name> AND
\* relationship = 'calls' LIMIT ?
callers(name, limit) ==
    Prefix(IdSeq({e[1] : e \in {x \in edges : x[3] = "calls" /\ IsSymRef(x[2])
                                               /\ SymName(x[2]) = name}}), limit)

RECURSIVE expand_seeds(_, _, _, _)
expand_seeds(seeds, seen, expanded, limit) ==
    IF seeds = <<>> THEN expanded
    ELSE LET cand == Head(seeds)
             types == add_unseen(expanded, seen, type_nodes(cand),
                                 (cand.score * 4) \div 10, "defines-type")
             both == add_unseen(types, seen, callers(nodes[cand.id].name, limit),
                                (cand.score * 5) \div 10, "caller")
         IN expand_seeds(Tail(seeds), seen, both, limit)

\* mutant: every candidate is a seed
expand_graph_all_seeds(candidates, limit) ==
    expand_seeds(candidates, IdsOf(candidates), <<>>, limit)

\* RetrievalEngine._expand_graph: the types the first three candidates use,
\* at 0.4 of the seed's score, and their callers, at 0.5
expand_graph(candidates, limit) ==
    expand_seeds(Prefix(candidates, 3), IdsOf(candidates), <<>>, limit)

\* 0.1 * ln(1 + count), in 1/10000
ln_boost(count) ==
    IF count = 1 THEN 693
    ELSE IF count = 2 THEN 1099
    ELSE IF count = 3 THEN 1386
    ELSE IF count = 4 THEN 1609
    ELSE 1792

\* RetrievalEngine._boost_centrality: a node whose name is called gains
\* the factor 1 + 0.1 ln(1 + count)
boost_centrality(candidates) ==
    [i \in DOMAIN candidates |->
        LET count == Cardinality({e \in edges :
                         /\ e[3] = "calls"
                         /\ IsSymRef(e[2])
                         /\ SymName(e[2]) = nodes[candidates[i].id].name})
        IN IF count > 0
             THEN [candidates[i] EXCEPT !.score = (@ * (10000 + ln_boost(count))) \div 10000]
             ELSE candidates[i]]

\* query.lower().split(): the maximal runs of characters that are no blanks
SplitTerms(q) ==
    {SubSeq(q, r[1], r[2]) : r \in
        {p \in (DOMAIN q) \X (DOMAIN q) :
            /\ p[1] <= p[2]
            /\ \A x \in p[1]..p[2] : ~isspace(q[x])
            /\ (p[1] = 1 \/ isspace(q[p[1] - 1]))
            /\ (p[2] = Len(q) \/ isspace(q[p[2] + 1]))}}

\* term in name_lower: a word is part of a name when it is the name, or is
\* "file" and the name is that of a file ("file1", "file2")
term_in_name(term, name) ==
    /\ Len(term) = 1
    /\ \/ term[1] = name
       \/ term[1] = "file" /\ \E f \in Files : name = basename(f)

\* query in cand.node.content, for a query of at most one character: the
\* empty string is part of every text, a word of the texts that hold it, a
\* blank or a parenthesis of every text with a definition, a quote of none
query_in_content(query, content) ==
    \/ query = <<>>
    \/ /\ Len(query) = 1
       /\ \/ query[1] \in ContentTerms(content)
          \/ query[1] \in {" ", "("} /\ ContentTerms(content) # {}

\* RetrievalEngine._rerank, step 1: the factor 1.2 for a query term in the
\* name, the factor 1.5 for the query in the content, then the sort
heuristic_rerank(query, candidates) ==
    LET boosted(c) ==
            LET n == nodes[c.id]
                s1 == IF \E t \in SplitTerms(query) : term_in_name(t, n.name)
                        THEN (c.score * 12) \div 10 ELSE c.score
                s2 == IF query_in_content(query, n.content) THEN (s1 * 15) \div 10 ELSE s1
            IN [c EXCEPT !.score = s2]
    IN SortDesc([i \in DOMAIN candidates |-> boosted(candidates[i])])

\* what llm.generate_response does: it raises, returns text that is no
\* JSON, or returns a JSON object with a list of indices (counted from 0)
LlmRaises == [kind |-> "raise", indices |-> <<>>]
LlmText == [kind |-> "text", indices |-> <<>>]
LlmJson(indices) == [kind |-> "json", indices |-> indices]

\* the indices the loop of _llm_rerank accepts: integers within the list
valid_indices(indices, n) == SelectSeq(indices, LAMBDA idx : 0 <= idx /\ idx < n)

\* RetrievalEngine._llm_rerank: the candidates named by the accepted
\* indices first, scored 50, 49, ..., then the others in their order; a
\* candidate named twice is one object, which keeps the score set last
llm_rerank(candidates, response) ==
    IF response.kind = "raise" THEN [raised |-> TRUE, list |-> candidates]
    ELSE IF response.kind = "text" THEN [raised |-> FALSE, list |-> candidates]
    ELSE LET picked == valid_indices(response.indices, Len(candidates))
             last(i) == CHOOSE j \in DOMAIN picked :
                            /\ picked[j] = picked[i]
                            /\ \A o \in DOMAIN picked : picked[o] = picked[i] => o <= j
             ranked == [i \in DOMAIN picked |->
                           [candidates[picked[i] + 1] EXCEPT
                               !.score = 50 * Scale - (last(i) - 1) * Scale,
                               !.reason = "llm-rerank"]]
             seen == {picked[i] : i \in DOMAIN picked}
             others == [i \in DOMAIN candidates |-> [idx |-> i - 1, c |-> candidates[i]]]
             rest == SelectSeq(others, LAMBDA o : o.idx \notin seen)
         IN [raised |-> FALSE,
             list |-> ranked \o [i \in DOMAIN rest |-> rest[i].c]]

\* a rerank that lets the failure of the LLM call through
rerank_propagates(query, candidates, response) ==
    LET sorted == heuristic_rerank(query, candidates)
        top == Prefix(sorted, 10)
        r == llm_rerank(top, response)
    IN IF top = <<>> THEN [raised |-> FALSE, list |-> sorted]
       ELSE IF r.raised THEN [raised |-> TRUE, list |-> <<>>]
       ELSE [raised |-> FALSE, list |-> r.list \o SubSeq(sorted, 11, Len(sorted))]
\* RetrievalEngine._rerank: the heuristic, then the first ten through the
\* LLM; when that raises, the order of the heuristic is kept
rerank(query, candidates, response) ==
    LET sorted == heuristic_rerank(query, candidates)
        top == Prefix(sorted, 10)
        r == llm_rerank(top, response)
    IN IF top = <<>> THEN [raised |-> FALSE, list |-> sorted]
       ELSE IF r.raised THEN [raised |-> FALSE, list |-> sorted]
       ELSE [raised |-> FALSE, list |-> r.list \o SubSeq(sorted, 11, Len(sorted))]

\* the row of the cache that holds the vector of a node
cache_row(e, id) == CHOOSE i \in DOMAIN e.cache_ids : e.cache_ids[i] = id

\* a score of relevance alone
mmr_score_relevance_only(lambda_param, sim_q, max_sim_s) == sim_q
\* lambda * sim_q - (1 - lambda) * max_sim_s, times ten (lambda in tenths)
mmr_score(lambda_param, sim_q, max_sim_s) ==
    lambda_param * sim_q - (10 - lambda_param) * max_sim_s

RECURSIVE mmr_select(_, _, _, _, _, _)
\* the loop of _mmr: the first remaining index with the greatest score
mmr_select(selected, remaining, vecs, query_vec, k, lambda_param) ==
    IF ~(Len(selected) < k /\ remaining # <<>>) THEN selected
    ELSE LET sim_s(idx) ==
                 IF selected = <<>> THEN 0
                 ELSE LET sims == {cosine(vecs[idx], vecs[selected[j]]) : j \in DOMAIN selected}
                      IN CHOOSE x \in sims : \A y \in sims : y <= x
             score(idx) == mmr_score(lambda_param, cosine(vecs[idx], query_vec), sim_s(idx))
             best == CHOOSE i \in DOMAIN remaining :
                         /\ \A j \in DOMAIN remaining : score(remaining[j]) <= score(remaining[i])
                         /\ \A j \in 1..(i - 1) : score(remaining[j]) < score(remaining[i])
         IN mmr_select(Append(selected, remaining[best]),
                       SubSeq(remaining, 1, best - 1)
                           \o SubSeq(remaining, best + 1, Len(remaining)),
                       vecs, query_vec, k, lambda_param)

\* RetrievalEngine._mmr: without a query vector, or when no candidate has a
\* vector in the cache, the first k candidates; otherwise the candidates
\* with a cached vector, selected by maximal marginal relevance
mmr(e, query_vec, candidates, k, lambda_param) ==
    LET kept == SelectSeq(candidates, LAMBDA c : \E i \in DOMAIN e.cache_ids : e.cache_ids[i] = c.id)
        vecs == [i \in DOMAIN kept |-> e.cache_matrix[cache_row(e, kept[i].id)]]
        selected == mmr_select(<<>>, [i \in DOMAIN kept |-> i], vecs, query_vec, k,
                               lambda_param)
    IN IF query_vec = NoVector \/ candidates = <<>> \/ kept = <<>>
         THEN [raised |-> FALSE, list |-> Prefix(candidates, k)]
       ELSE IF \E i \in DOMAIN kept : cache_row(e, kept[i].id) \notin DOMAIN e.cache_matrix
         THEN [raised |-> TRUE, list |-> <<>>]
       ELSE IF \E i \in DOMAIN vecs : Len(vecs[i]) # Len(query_vec)
         THEN [raised |-> TRUE, list |-> <<>>]
       ELSE [raised |-> FALSE, list |-> [i \in DOMAIN selected |-> kept[selected[i]]]]

\* what embeddings.embed([query]) does: it raises (the retries are used
\* up), or returns the vector of the query
EmbedRaises == [raised |-> TRUE, vector |-> <<>>]
Embedded(v) == [raised |-> FALSE, vector |-> v]

\* a refresh that also deletes the rows it cannot use for the index
embeddings_after_refresh_pruned(table) ==
    [x \in {y \in DOMAIN table : Len(table[y].vector) = dim} |-> table[x]]
\* the embeddings table after the statements of a retrieval: they are
\* SELECTs, and no transaction is committed
embeddings_after_refresh(table) == table

\* RetrievalEngine.retrieve(query, k); env holds what the provider answers
\* to the two embedding calls and what the LLM answers to the rerank prompt
\* lines 87-89: the second embedding of the query and _mmr fail or give the results
retrieve_results(e1, files1, env, stages, reranked, final) ==
    IF reranked.raised \/ (client /\ env.embed2.raised) \/ final.raised
      THEN [raised |-> TRUE, results |-> <<>>, engine |-> e1, files |-> files1,
            stages |-> stages]
    ELSE [raised |-> FALSE, results |-> final.list, engine |-> e1, files |-> files1,
          stages |-> stages]

\* line 87: the reranked candidates go through _mmr
retrieve_reranked(e1, files1, k, env, stages, reranked) ==
    retrieve_results(e1, files1, env, stages, reranked,
                     mmr(e1, IF client THEN env.embed2.vector ELSE NoVector,
                         reranked.list, k, retrieval_mmr_lambda))

\* lines 78-84: centrality boost, sort, rerank of the first 20
retrieve_ranked(e1, files1, query, k, env, stages, expanded) ==
    retrieve_reranked(e1, files1, k, env, [stages EXCEPT !.expanded = IdsOf(expanded)],
                      rerank(query, Prefix(SortDesc(boost_centrality(expanded)), 20),
                             env.llm))

\* lines 67-76: the fused candidates and their graph expansion
retrieve_candidates(e1, files1, query, k, env, stages, candidates) ==
    retrieve_ranked(e1, files1, query, k, env, stages,
                    candidates \o expand_graph(candidates, 5))

\* lines 41-65: what the two searches leave to fuse; sp is the outcome of the
\* sparse search, d the one of the dense search (made when tried)
retrieve_fused(e, files, query, k, env, sp, d, tried) ==
    retrieve_candidates(IF tried THEN d.engine ELSE e, IF tried THEN d.files ELSE files,
                        query, k, env,
                        [sparse |-> ~sp.raised,
                         sparse_ids |-> IF sp.raised THEN <<>> ELSE sp.ids,
                         dense |-> tried /\ ~d.raised,
                         dense_ids |-> IF tried /\ ~d.raised THEN IdsOf(d.hits) ELSE {},
                         expanded |-> <<>>],
                        fuse(IF sp.raised THEN <<>> ELSE sp.ids,
                             IF tried /\ ~d.raised THEN d.hits ELSE <<>>))

retrieve(e, files, query, k_arg, env) ==
    LET k == IF k_arg = 0 THEN retrieval_k ELSE k_arg
    IN retrieve_fused(e, files, query, k, env,
                      search_nodes_ranked(query, k * 2),
                      dense_search(e, files, asarray_float32(env.embed1.vector), k * 2, TRUE),
                      client /\ ~env.embed1.raised)

(***************************************************************************)
(* hybrid_search of the API service: Reciprocal Rank Fusion of the ranked  *)
(* lists of document ids.  A fused score of RrfScale is 1.0.               *)
(***************************************************************************)
rrf_k == 60
RrfScale == 238266

\* 1.0 / (k + rank + 1), rank counted from 0
rrf_term(rank) == RrfScale \div (rrf_k + rank + 1)

RECURSIVE rrf_of_list(_, _, _)
\* what one list adds to the score of a document, from position rank on
rrf_of_list(ranked_list, doc_id, rank) ==
    IF ranked_list = <<>> THEN 0
    ELSE (IF Head(ranked_list) = doc_id THEN rrf_term(rank) ELSE 0)
           + rrf_of_list(Tail(ranked_list), doc_id, rank + 1)

RECURSIVE fused_score(_, _)
\* fused_scores[doc_id] after the two loops
fused_score(rrf_lists, doc_id) ==
    IF rrf_lists = <<>> THEN 0
    ELSE rrf_of_list(Head(rrf_lists), doc_id, 0) + fused_score(Tail(rrf_lists), doc_id)

RECURSIVE first_seen(_, _)
\* the keys of fused_scores in the order of their insertion
first_seen(flat, seen) ==
    IF flat = <<>> THEN <<>>
    ELSE IF Head(flat) \in seen THEN first_seen(Tail(flat), seen)
    ELSE <<Head(flat)>> \o first_seen(Tail(flat), seen \cup {Head(flat)})

RECURSIVE Flatten(_)
Flatten(lists) == IF lists = <<>> THEN <<>> ELSE Head(lists) \o Flatten(Tail(lists))

\* sorted(fused_scores.items(), key=score, reverse=True)
rrf_fuse(rrf_lists) ==
    LET docs == first_seen(Flatten(rrf_lists), {})
    IN SortDesc([i \in DOMAIN docs |->
                    [id |-> docs[i], score |-> fused_score(rrf_lists, docs[i])]])

(***************************************************************************)
(* Reads of an indexed store.  The store is the one an index pass leaves   *)
(* for a tree, with vectors for some of its chunks; no pass runs meanwhile.*)
(*   SpecSearch - Database.search_nodes on any query string.               *)
(***************************************************************************)
SearchTrees ==
    {tree \in [Files -> {Absent, 1, 2}] :
        tree[1] # Absent /\ \A f \in Files \ {1} : tree[f] # 2}

\* vectors as the store returns them: float32 values, of the dimension of
\* the ANN index or, for <<10>>, of another one
StoredVectors == {<<10, 0>>, <<6, 8>>, <<10>>}

ParsedTree(tree) == {parse_file_content(f, tree[f]) : f \in {x \in Files : tree[x] # Absent}}
TreeNodes(tree) == UNION {p.nodes : p \in ParsedTree(tree)}

\* nodes, full-text rows, edges and hashes of a tree indexed without failure
StoreOf(tree) ==
    /\ nodes = [id \in {n.id : n \in TreeNodes(tree)} |->
                   NodeRow(CHOOSE n \in TreeNodes(tree) : n.id = id)]
    /\ nodes_fts = SetToBag({FtsRow(n) : n \in TreeNodes(tree)})
    /\ edges = UNION {p.edges : p \in ParsedTree(tree)}
    /\ file_hashes = [f \in {x \in Files : tree[x] # Absent} |-> sha256(tree[f])]
    /\ index_runs = <<>>
    /\ repo_maps = <<>>

\* the embeddings tables in which some chunks of the tree have a vector
\* under the active model
EmbeddingTables(tree) ==
    LET chunks == {n.id : n \in {x \in TreeNodes(tree) : x.type # "file"}}
    IN UNION {{[k \in S \X {embeddings_model} |->
                  [vector |-> a[k[1]], dim |-> Len(a[k[1]])]] : a \in [S -> StoredVectors]}
              : S \in SUBSET chunks}

\* the sidecar files a retriever can find: none, those of a rebuild from
\* the current embeddings, or such files with one unreadable or lost
Sidecars ==
    LET bin == SavedFile(embedding_vecs(embeddings_model))
        map == SavedFile(embedding_ids(embeddings_model))
    IN {NoSidecar,
        [bin |-> bin, map |-> map],
        [bin |-> CorruptFile, map |-> map],
        [bin |-> bin, map |-> CorruptFile],
        [bin |-> bin, map |-> MissingFile]}

\* a call-free retriever: no pass of the indexer runs beside it
NoCallYet ==
    /\ now = 0
    /\ arg = NoArg
    /\ out = NoOut
    /\ IdlePass
    /\ lastop = Step("init", "api", 0)
    /\ ops = 0

\* lexical search needs no vectors: none are stored, no provider is set
InitSearch ==
    /\ fs \in SearchTrees
    /\ StoreOf(fs)
    /\ embeddings = <<>>
    /\ sidecar = NoSidecar
    /\ client = FALSE
    /\ engine = NewEngine(FALSE)
    /\ NoCallYet

\* one more call; the store, the tree and the indexer are not involved
SearchCall ==
    /\ ops < MaxCalls
    /\ ops' = ops + 1
    /\ UNCHANGED <<fs, client, store>>
    /\ UNCHANGED passvars

\* Database.search_nodes(query)
SearchNodes ==
    \E query \in Queries :
        /\ SearchCall
        /\ arg' = [fn |-> "search_nodes", query |-> query]
        /\ out' = [fn |-> "search_nodes",
                   raised |-> search_nodes_ids(query).raised,
                   executed |-> search_nodes_ids(query).executed,
                   nodes |-> IF search_nodes_ids(query).raised THEN {}
                             ELSE search_nodes(query)]
        /\ lastop' = Step("search_nodes", "api", 0)
        /\ UNCHANGED <<engine, now, sidecar>>

NextSearch ==
    \/ SearchNodes

SpecSearch == InitSearch /\ [][NextSearch]_vars

(***************************************************************************)
(*   SpecAnn - the ANNIndex of a RetrievalEngine called directly, and      *)
(*             RetrievalEngine._dense_search.                              *)
(***************************************************************************)
\* query vectors: of the dimension of the index or, for <<10>>, not
QueryVectors == {<<10, 0>>, <<6, 8>>, <<10>>}
Ks == {1, 2}

InitAnn ==
    /\ fs \in SearchTrees
    /\ StoreOf(fs)
    /\ embeddings \in EmbeddingTables(fs)
    /\ sidecar \in Sidecars
    /\ client = FALSE
    /\ engine \in {NewEngine(available) : available \in BOOLEAN}
    /\ NoCallYet

\* what build is called with: a matrix and a list of ids
BuildInputs ==
    {b \in {[vectors |-> embedding_vecs(embeddings_model),
             ids |-> embedding_ids(embeddings_model)],
            [vectors |-> embedding_vecs(embeddings_model), ids |-> <<>>],
            [vectors |-> <<>>, ids |-> <<>>]} : ~vstack_raises(b.vectors)}

\* ANNIndex.build(vectors, ids)
AnnBuild ==
    \E b \in BuildInputs, disk_ok \in BOOLEAN :
        LET r == ann_build(engine.ann_index, sidecar, b.vectors, b.ids, disk_ok)
        IN /\ SearchCall
           /\ arg' = [fn |-> "build", vectors |-> b.vectors, ids |-> b.ids]
           /\ engine' = [engine EXCEPT !.ann_index = r.ann]
           /\ sidecar' = r.files
           /\ out' = [fn |-> "build", raised |-> r.raised]
           /\ lastop' = Step("build", "api", 0)
           /\ UNCHANGED now

\* ANNIndex.load()
AnnLoad ==
    LET r == ann_load(engine.ann_index, sidecar)
    IN /\ SearchCall
       /\ arg' = [fn |-> "load"]
       /\ engine' = [engine EXCEPT !.ann_index = r.ann]
       /\ out' = [fn |-> "load", raised |-> r.raised, ok |-> r.ok]
       /\ lastop' = Step("load", "api", 0)
       /\ UNCHANGED <<now, sidecar>>

\* ANNIndex.query(vector, k)
AnnQuery ==
    \E vector \in QueryVectors, k \in Ks :
        LET r == ann_query(engine.ann_index, vector, k)
        IN /\ SearchCall
           /\ arg' = [fn |-> "query", vector |-> vector, k |-> k]
           /\ out' = [fn |-> "query", raised |-> r.raised, hits |-> r.hits]
           /\ lastop' = Step("query", "api", 0)
           /\ UNCHANGED <<engine, now, sidecar>>

\* RetrievalEngine._dense_search(vector, k)
DenseSearch ==
    \E vector \in QueryVectors, k \in Ks, disk_ok \in BOOLEAN :
        LET r == dense_search(engine, sidecar, asarray_float32(vector), k, disk_ok)
        IN /\ SearchCall
           /\ arg' = [fn |-> "_dense_search", vector |-> vector, k |-> k]
           /\ engine' = r.engine
           /\ sidecar' = r.files
           /\ out' = [fn |-> "_dense_search", raised |-> r.raised, hits |-> r.hits]
           /\ lastop' = Step("_dense_search", "api", 0)
           /\ UNCHANGED now

NextAnn ==
    \/ AnnBuild
    \/ AnnLoad
    \/ AnnQuery
    \/ DenseSearch

SpecAnn == InitAnn /\ [][NextAnn]_vars

(***************************************************************************)
(*   SpecRetrieve - RetrievalEngine.retrieve, with the embedding provider  *)
(*                  and the LLM answering or failing.                      *)
(***************************************************************************)
RetrieveQueries == {<<>>, <<"(">>} \cup {<<DefName(i)>> : i \in 1..MaxContent}
RetrieveKs == {0, 1}
RetrieveVectors == {<<6, 8>>, <<10>>}
LlmResponses == {LlmRaises, LlmText, LlmJson(<<1, 0>>), LlmJson(<<0, 0>>)}

\* the answers to the two embedding calls of one retrieve: the provider
\* gives one vector for one text
EmbedAnswers ==
    IF ~client THEN {<<EmbedRaises, EmbedRaises>>}
    ELSE {<<EmbedRaises, EmbedRaises>>}
           \cup {<<Embedded(v), EmbedRaises>> : v \in RetrieveVectors}
           \cup {<<EmbedRaises, Embedded(v)>> : v \in RetrieveVectors}
           \cup {<<Embedded(v), Embedded(v)>> : v \in RetrieveVectors}

\* the tables of a finished sweep (every chunk has a vector, all of one
\* dimension) and the empty table
SweptTables(tree) ==
    {t \in EmbeddingTables(tree) :
        \/ DOMAIN t = {}
        \/ /\ \A n \in TreeNodes(tree) : n.type # "file" => <<n.id, embeddings_model>> \in DOMAIN t
           /\ \A x, y \in DOMAIN t : t[x].dim = t[y].dim}

InitRetrieve ==
    /\ fs \in SearchTrees
    /\ StoreOf(fs)
    /\ embeddings \in SweptTables(fs)
    /\ sidecar \in {NoSidecar, [bin |-> SavedFile(embedding_vecs(embeddings_model)),
                                map |-> SavedFile(embedding_ids(embeddings_model))]}
    /\ client \in BOOLEAN
    /\ engine \in {NewEngine(available) : available \in BOOLEAN}
    /\ NoCallYet

\* RetrievalEngine.retrieve(query, k)
Retrieve ==
    \E query \in RetrieveQueries, k \in RetrieveKs, answers \in EmbedAnswers,
       llm \in LlmResponses :
        /\ ops < MaxRetrieves
        /\ \E r \in {retrieve(engine, sidecar, query, k,
                             [embed1 |-> answers[1], embed2 |-> answers[2], llm |-> llm])} :
               /\ ops' = ops + 1
               /\ arg' = [fn |-> "retrieve", query |-> query, k |-> k,
                          embed1 |-> answers[1], embed2 |-> answers[2], llm |-> llm]
               /\ engine' = r.engine
               /\ sidecar' = r.files
               /\ embeddings' = embeddings_after_refresh(embeddings)
               /\ out' = [fn |-> "retrieve", raised |-> r.raised, results |-> r.results,
                          stages |-> r.stages]
               /\ lastop' = Step("retrieve", "api", 0)
               /\ UNCHANGED <<nodes, nodes_fts, edges, file_hashes, index_runs, repo_maps>>
               /\ UNCHANGED <<fs, client, now>>
               /\ UNCHANGED passvars

NextRetrieve ==
    \/ Retrieve

SpecRetrieve == InitRetrieve /\ [][NextRetrieve]_vars

(***************************************************************************)
(*   SpecRank - the ranking functions applied once to drawn inputs: the    *)
(*              fusion of retrieve, the fusion of hybrid_search, _mmr and  *)
(*              _llm_rerank.                                               *)
(***************************************************************************)
RankTree == [f \in Files |-> IF f = 1 THEN 2 ELSE 1]
RankDocs == {n.id : n \in TreeNodes(RankTree)}
RankVectors == {<<10, 0>>, <<6, 8>>, <<0, 10>>}
RankScores == {Scale, (Scale * 6) \div 10, 0, 0 - (Scale * 6) \div 10}
Lambdas == {0, 5, 10}

\* ranked lists: no document twice
RankedLists(n) ==
    {l \in UNION {[1..m -> RankDocs] : m \in 0..n} :
        \A i, j \in DOMAIN l : l[i] = l[j] => i = j}

\* candidates in the order of a ranked list, scored 1, 1/2, 1/3
CandidatesOf(l) == sparse_results(l)

\* dense hits: a ranked list with scores that do not increase
DenseHits ==
    {h \in UNION {[1..m -> [id : RankDocs, score : RankScores]] : m \in 0..(MaxList - 1)} :
        /\ \A i, j \in DOMAIN h : h[i].id = h[j].id => i = j
        /\ \A i \in DOMAIN h : i > 1 => h[i].score <= h[i - 1].score}

\* answers of the LLM: a failure, text, and index lists with indices out
\* of range and indices named twice
RankResponses ==
    {LlmRaises, LlmText}
      \cup {LlmJson(ix) : ix \in UNION {[1..m -> -1..MaxList] : m \in 0..(MaxList - 1)}}

\* an engine whose cache holds the vector of every chunk
InitRank ==
    /\ fs = RankTree
    /\ StoreOf(fs)
    /\ embeddings \in {t \in SweptTables(fs) :
                          /\ DOMAIN t # {}
                          /\ \A x \in DOMAIN t : t[x].vector \in RankVectors
                          /\ t[<<<<1, 0, 2>>, embeddings_model>>].vector = <<10, 0>>}
    /\ sidecar = NoSidecar
    /\ client = TRUE
    /\ now = 0
    /\ engine = refresh_cache(NewEngine(FALSE)).engine
    /\ arg = NoArg
    /\ out = NoOut
    /\ IdlePass
    /\ lastop = Step("init", "api", 0)
    /\ ops = 0

\* a function is applied once, to one input; it reads the cache only
RankCall ==
    /\ arg = NoArg
    /\ ops' = ops + 1
    /\ UNCHANGED <<fs, client, store, engine, now, sidecar>>
    /\ UNCHANGED passvars

\* retrieve, stages 1 and 2: the fusion of the sparse and the dense hits
Fuse ==
    \E sparse_ids \in RankedLists(MaxList - 1), dense_hits \in DenseHits :
        /\ RankCall
        /\ arg' = [fn |-> "fuse", sparse_ids |-> sparse_ids, dense_hits |-> dense_hits]
        /\ out' = [fn |-> "fuse", raised |-> FALSE, list |-> fuse(sparse_ids, dense_hits)]
        /\ lastop' = Step("fuse", "api", 0)

\* hybrid_search, step 3: the fusion of two or three ranked lists
HybridFuse ==
    \E rrf_lists \in UNION {[1..m -> RankedLists(MaxList - 1)] : m \in 2..3} :
        /\ RankCall
        /\ arg' = [fn |-> "rrf", rrf_lists |-> rrf_lists]
        /\ out' = [fn |-> "rrf", raised |-> FALSE, list |-> rrf_fuse(rrf_lists)]
        /\ lastop' = Step("rrf", "api", 0)

\* RetrievalEngine._mmr(query_vec, candidates, k), for a configured lambda
Mmr ==
    \E query_vec \in RankVectors \cup {NoVector}, l \in RankedLists(MaxList),
       k \in 1..MaxList, lambda_param \in Lambdas :
        LET r == mmr(engine, query_vec, CandidatesOf(l), k, lambda_param)
        IN /\ RankCall
           /\ arg' = [fn |-> "_mmr", query_vec |-> query_vec, candidates |-> CandidatesOf(l),
                      k |-> k, lambda_param |-> lambda_param]
           /\ out' = [fn |-> "_mmr", raised |-> r.raised, list |-> r.list]
           /\ lastop' = Step("_mmr", "api", 0)

\* RetrievalEngine._llm_rerank(query, candidates), for an answer of the LLM
LlmRerank ==
    \E l \in RankedLists(MaxList), response \in RankResponses :
        LET r == llm_rerank(CandidatesOf(l), response)
        IN /\ RankCall
           /\ arg' = [fn |-> "_llm_rerank", candidates |-> CandidatesOf(l),
                      response |-> response]
           /\ out' = [fn |-> "_llm_rerank", raised |-> r.raised, list |-> r.list]
           /\ lastop' = Step("_llm_rerank", "api", 0)

NextRank ==
    \/ Fuse
    \/ HybridFuse
    \/ Mmr
    \/ LlmRerank

SpecRank == InitRank /\ [][NextRank]_vars

(***************************************************************************)
(*   SpecExpand - _expand_graph applied once to a drawn candidate list,    *)
(*                on the store of a tree of two source files and two text  *)
(*                files.                                                   *)
(***************************************************************************)
ExpandFiles == 1..4
ExpandTree == [f \in ExpandFiles |-> IF f % 2 = 1 THEN 2 ELSE 1]
ExpandParsed == {parse_file_content(f, ExpandTree[f]) : f \in ExpandFiles}
ExpandNodes == UNION {p.nodes : p \in ExpandParsed}
ExpandDocs == {n.id : n \in ExpandNodes}

\* the fused candidates: no node twice, scored 1, 1/2, 1/3, ...
RECURSIVE Arrangements(_, _)
\* the sequences of at most n distinct elements of S
Arrangements(S, n) ==
    IF n = 0 THEN {<<>>}
    ELSE {<<>>} \cup UNION {{<<x>> \o t : t \in Arrangements(S \ {x}, n - 1)} : x \in S}

ExpandCandidates == {sparse_results(l) : l \in Arrangements(ExpandDocs, MaxCandidates)}

InitExpand ==
    /\ fs = ExpandTree
    /\ nodes = [id \in ExpandDocs |-> NodeRow(CHOOSE n \in ExpandNodes : n.id = id)]
    /\ nodes_fts = SetToBag({FtsRow(n) : n \in ExpandNodes})
    /\ edges = UNION {p.edges : p \in ExpandParsed}
    /\ embeddings = <<>>
    /\ file_hashes = [f \in ExpandFiles |-> sha256(ExpandTree[f])]
    /\ index_runs = <<>>
    /\ repo_maps = <<>>
    /\ sidecar = NoSidecar
    /\ client = FALSE
    /\ engine = NewEngine(FALSE)
    /\ NoCallYet

\* RetrievalEngine._expand_graph(candidates, limit=5), as retrieve calls it
ExpandGraph ==
    /\ arg = NoArg
    /\ \E candidates \in ExpandCandidates :
        /\ arg' = [fn |-> "_expand_graph", candidates |-> candidates, limit |-> 5]
        /\ out' = [fn |-> "_expand_graph", raised |-> FALSE,
                   list |-> expand_graph(candidates, 5)]
    /\ ops' = ops + 1
    /\ lastop' = Step("_expand_graph", "api", 0)
    /\ UNCHANGED <<fs, client, store, engine, now, sidecar>>
    /\ UNCHANGED passvars

NextExpand ==
    \/ ExpandGraph

SpecExpand == InitExpand /\ [][NextExpand]_vars

(***************************************************************************)
(*   SpecHybrid - one call of hybrid_search of the API service: the        *)
(*                searches are asyncio tasks that finish, or fail, in any  *)
(*                order while the coroutine waits at its awaits.           *)
(***************************************************************************)
\* the ranked lists a search answers with
HybridLists ==
    LET a == IdSeq(RankDocs)[1]
        b == IdSeq(RankDocs)[2]
    IN {<<a>>, <<b, a>>}

\* sparse_queries = [query] + sub_questions: one sparse task for each
sparse_tasks(nq) == [i \in 1..(1 + nq) |-> <<"sparse", i>>]
\* one dense task for the query, each sub-question and the HyDE document
dense_tasks(nq, hyde) == [i \in 1..(1 + nq + (IF hyde THEN 1 ELSE 0)) |-> <<"dense", i>>]
Range(seq) == {seq[i] : i \in DOMAIN seq}
HybridTasks(nq, hyde) == Range(sparse_tasks(nq)) \cup Range(dense_tasks(nq, hyde))

\* mutant: the await returns as soon as one task has completed
gather_ready_first_completed(status, ts) == \E i \in DOMAIN ts : status[ts[i]] = "done"

\* await asyncio.gather(*ts) returns once every task has completed
gather_ready(status, ts) == \A i \in DOMAIN ts : status[ts[i]] = "done"

\* ... and raises once a task has raised
gather_raises(status, ts) == \E i \in DOMAIN ts : status[ts[i]] = "failed"

\* the results of gather: in the order of the tasks handed to it
gather_results(results, ts) == [i \in DOMAIN ts |-> results[ts[i]]]

InitHybrid ==
    /\ fs = RankTree
    /\ StoreOf(fs)
    /\ embeddings = <<>>
    /\ sidecar = NoSidecar
    /\ client = TRUE
    /\ engine = NewEngine(FALSE)
    /\ NoCallYet

\* the coroutine and its tasks leave the index alone
HybridCall ==
    /\ UNCHANGED <<fs, client, store, engine, now, sidecar>>
    /\ UNCHANGED passvars

\* hybrid_search up to "embeddings = await embedding_task": the expansion
\* gave nq sub-questions and, or not, a HyDE document; the embedding task
\* and the sparse tasks are created
HybridStart ==
    /\ arg = NoArg
    /\ \E nq \in 0..MaxSubQuestions, hyde \in BOOLEAN :
         \E results \in [HybridTasks(nq, hyde) -> HybridLists] :
            /\ arg' = [fn |-> "hybrid_search", nq |-> nq, hyde |-> hyde, results |-> results]
            /\ out' = [fn |-> "hybrid_search", raised |-> FALSE, pc |-> "embedding",
                       status |-> [t \in HybridTasks(nq, hyde) |->
                                      IF t[1] = "sparse" THEN "running" ELSE "none"],
                       order |-> <<>>, all_sparse_results |-> <<>>,
                       all_dense_results |-> <<>>, list |-> <<>>]
    /\ ops' = 0
    /\ lastop' = Step("create_task", "api", 0)
    /\ HybridCall

\* the embedding task completes: the dense tasks are created, and the
\* coroutine waits in "await asyncio.gather(*sparse_tasks)"
EmbeddingDone ==
    /\ out.fn = "hybrid_search" /\ out.pc = "embedding"
    /\ out' = [out EXCEPT !.pc = "gather_sparse",
                          !.status = [t \in DOMAIN out.status |->
                                         IF t[1] = "dense" THEN "running" ELSE out.status[t]]]
    /\ lastop' = Step("embed", "api", 0)
    /\ UNCHANGED <<arg, ops>>
    /\ HybridCall

\* embed_provider.embed raises: hybrid_search raises at its await
EmbeddingFails ==
    /\ out.fn = "hybrid_search" /\ out.pc = "embedding"
    /\ ops < MaxFaults
    /\ ops' = ops + 1
    /\ out' = [out EXCEPT !.pc = "raised", !.raised = TRUE]
    /\ lastop' = Step("raise", "api", 0)
    /\ UNCHANGED arg
    /\ HybridCall

\* a search task (search_sparse or search_vectors in a thread) completes
SearchDone(t) ==
    /\ out.fn = "hybrid_search"
    /\ t \in DOMAIN out.status
    /\ out.status[t] = "running"
    /\ out' = [out EXCEPT !.status[t] = "done", !.order = Append(@, t)]
    /\ lastop' = Step("search_done", "worker", 0)
    /\ UNCHANGED <<arg, ops>>
    /\ HybridCall

\* a search task raises
SearchFails(t) ==
    /\ out.fn = "hybrid_search"
    /\ t \in DOMAIN out.status
    /\ out.status[t] = "running"
    /\ ops < MaxFaults
    /\ ops' = ops + 1
    /\ out' = [out EXCEPT !.status[t] = "failed", !.order = Append(@, t)]
    /\ lastop' = Step("search_failed", "worker", 0)
    /\ UNCHANGED arg
    /\ HybridCall

\* all_sparse_results = await asyncio.gather(*sparse_tasks)
GatherSparse ==
    /\ out.fn = "hybrid_search" /\ out.pc = "gather_sparse"
    /\ gather_ready(out.status, sparse_tasks(arg.nq))
    /\ out' = [out EXCEPT !.pc = "gather_dense",
                          !.all_sparse_results = gather_results(arg.results, sparse_tasks(arg.nq))]
    /\ lastop' = Step("gather", "api", 0)
    /\ UNCHANGED <<arg, ops>>
    /\ HybridCall

\* all_dense_results = await asyncio.gather(*dense_tasks)
GatherDense ==
    /\ out.fn = "hybrid_search" /\ out.pc = "gather_dense"
    /\ gather_ready(out.status, dense_tasks(arg.nq, arg.hyde))
    /\ out' = [out EXCEPT !.pc = "fusion",
                          !.all_dense_results =
                              gather_results(arg.results, dense_tasks(arg.nq, arg.hyde))]
    /\ lastop' = Step("gather", "api", 0)
    /\ UNCHANGED <<arg, ops>>
    /\ HybridCall

\* a gather raises the exception of a failed task: hybrid_search raises
GatherRaises ==
    /\ out.fn = "hybrid_search"
    /\ \/ out.pc = "gather_sparse" /\ gather_raises(out.status, sparse_tasks(arg.nq))
       \/ out.pc = "gather_dense" /\ gather_raises(out.status, dense_tasks(arg.nq, arg.hyde))
    /\ out' = [out EXCEPT !.pc = "raised", !.raised = TRUE]
    /\ lastop' = Step("raise", "api", 0)
    /\ UNCHANGED <<arg, ops>>
    /\ HybridCall

\* step 3: rrf_lists holds the dense lists, then the sparse lists; the
\* fused ranking is sorted by score
Fusion ==
    /\ out.fn = "hybrid_search" /\ out.pc = "fusion"
    /\ out' = [out EXCEPT !.pc = "fused",
                          !.list = rrf_fuse(out.all_dense_results \o out.all_sparse_results)]
    /\ lastop' = Step("rrf", "api", 0)
    /\ UNCHANGED <<arg, ops>>
    /\ HybridCall

NextHybrid ==
    \/ HybridStart
    \/ EmbeddingDone
    \/ EmbeddingFails
    \/ \E t \in HybridTasks(MaxSubQuestions, TRUE) : SearchDone(t)
    \/ \E t \in HybridTasks(MaxSubQuestions, TRUE) : SearchFails(t)
    \/ GatherSparse
    \/ GatherDense
    \/ GatherRaises
    \/ Fusion

SpecHybrid == InitHybrid /\ [][NextHybrid]_vars

(***************************************************************************)
(* The providers: LLMInterface.generate_response and                       *)
(* EmbeddingsInterface.embed behind their tenacity retry decorators.       *)
(* A text is a sequence of tokens: "fence_json" (three backquotes and the *)
(* word json), "fence" (three backquotes), the braces, "kv" (one           *)
(* "key": value pair), "w" (a word that is no JSON) and " " (white space). *)
(***************************************************************************)
TextTokens == {"fence_json", "fence", "{", "}", "kv", "w", " "}
Texts == UNION {[1..n -> TextTokens] : n \in 0..MaxText}

\* the exceptions of the openai client: all derive from APIError, the
\* timeout from APIConnectionError; IndexError is what choices[0] raises on
\* a response without choices
OpenAIErrors == {"RateLimitError", "APIConnectionError", "APITimeoutError",
                 "AuthenticationError", "BadRequestError"}
ProviderErrors == OpenAIErrors \cup {"IndexError"}
is_api_error(e) == e \in OpenAIErrors
\* retry_if_exception_type((RateLimitError, APIConnectionError))
retry_if_exception_type(e) == e \in {"RateLimitError", "APIConnectionError", "APITimeoutError"}

\* wait_exponential(multiplier=1, min=2, max=60) after the given attempt
wait_exponential(attempt_number) == Max(2, Min(2 ^ (attempt_number - 1), 60))

RECURSIVE lstrip(_)
lstrip(txt) == IF txt # <<>> /\ Head(txt) = " " THEN lstrip(Tail(txt)) ELSE txt
RECURSIVE rstrip(_)
rstrip(txt) ==
    IF txt # <<>> /\ txt[Len(txt)] = " " THEN rstrip(SubSeq(txt, 1, Len(txt) - 1)) ELSE txt
\* str.strip()
strip(txt) == lstrip(rstrip(txt))

\* json.loads accepts the text: an object of pairs, white space anywhere
json_loads_ok(txt) ==
    LET t == SelectSeq(txt, LAMBDA ch : ch # " ")
    IN /\ Len(t) >= 2
       /\ t[1] = "{"
       /\ t[Len(t)] = "}"
       /\ \A i \in 2..(Len(t) - 1) : t[i] = "kv"

\* json.dumps of an object of one or two pairs
json_dumps_object == <<"{", "kv", "}">>

\* _JSON_OBJ_RE.search(txt).group(0): from the first brace to the end, when
\* the text ends with a closing brace and white space; <<>> when no match
json_obj_match(txt) ==
    LET opens == {i \in DOMAIN txt : txt[i] = "{"}
        first == CHOOSE i \in opens : \A j \in opens : i <= j
        body == rstrip(txt)
    IN IF opens = {} \/ body = <<>> THEN <<>>
       ELSE IF body[Len(body)] = "}" /\ first < Len(body)
         THEN SubSeq(txt, first, Len(txt))
       ELSE <<>>

\* LLMInterface._coerce_json
coerce_json(txt0) ==
    LET t1 == strip(txt0)
        t2 == IF t1 # <<>> /\ Head(t1) = "fence_json" THEN Tail(t1) ELSE t1
        t3 == IF t2 # <<>> /\ Head(t2) = "fence" THEN Tail(t2) ELSE t2
        t4 == IF t3 # <<>> /\ t3[Len(t3)] = "fence" THEN SubSeq(t3, 1, Len(t3) - 1) ELSE t3
        txt == strip(t4)
        candidate == json_obj_match(txt)
    IN IF json_loads_ok(txt) THEN txt
       ELSE IF candidate # <<>> /\ json_loads_ok(candidate) THEN candidate
       ELSE json_dumps_object

\* LLMInterface._heuristic_simulation with json_mode: an object in each of
\* its three branches
heuristic_simulation(json_mode) == IF json_mode THEN json_dumps_object ELSE <<"w">>

\* A provider: its first fails requests raise error, the later ones are
\* answered with text; a request in json_object mode is refused when
\* strict = "unsupported" and answered with strict_text otherwise
\* (content None is the empty text)
create(p, calls, strict) ==
    IF strict /\ p.strict = "unsupported" THEN [raised |-> TRUE, error |-> "BadRequestError", text |-> <<>>]
    ELSE IF calls < p.fails THEN [raised |-> TRUE, error |-> p.error, text |-> <<>>]
    ELSE [raised |-> FALSE, error |-> "",
          text |-> IF strict THEN p.strict_text ELSE p.text]

\* one execution of the body of generate_response, calls requests having
\* been made before: [raised, error, text, calls]
generate_once(p, has_client, json_mode, prefer_json, calls) ==
    LET use_strict == json_mode /\ prefer_json
        s == create(p, calls, TRUE)
        calls1 == IF use_strict THEN calls + 1 ELSE calls
        r == create(p, calls1, FALSE)
    IN IF ~has_client
         THEN [raised |-> FALSE, error |-> "", text |-> heuristic_simulation(json_mode),
               calls |-> calls]
       ELSE IF use_strict /\ ~s.raised
         THEN [raised |-> FALSE, error |-> "",
               text |-> IF s.text = <<>> THEN <<"{", "}">> ELSE s.text, calls |-> calls1]
       ELSE IF use_strict /\ ~is_api_error(s.error)
         THEN [raised |-> TRUE, error |-> s.error, text |-> <<>>, calls |-> calls1]
       ELSE IF ~r.raised
         THEN [raised |-> FALSE, error |-> "",
               text |-> IF json_mode THEN coerce_json(r.text) ELSE r.text,
               calls |-> calls1 + 1]
       ELSE IF json_mode
         THEN [raised |-> FALSE, error |-> "", text |-> json_dumps_object,
               calls |-> calls1 + 1]
       ELSE [raised |-> TRUE, error |-> r.error, text |-> <<>>, calls |-> calls1 + 1]

\* one execution of the body of embed
embed_once(p, has_client, calls) ==
    LET r == create(p, calls, FALSE)
    IN IF ~has_client THEN [raised |-> FALSE, error |-> "", text |-> <<"w">>, calls |-> calls]
       ELSE IF ~r.raised
         THEN [raised |-> FALSE, error |-> "", text |-> r.text, calls |-> calls + 1]
       ELSE [raised |-> TRUE, error |-> r.error, text |-> <<>>, calls |-> calls + 1]

\* the decorated function called once more by tenacity
call_once(fn, p, has_client, json_mode, prefer_json, calls) ==
    IF fn = "embed" THEN embed_once(p, has_client, calls)
    ELSE generate_once(p, has_client, json_mode, prefer_json, calls)

RECURSIVE retrying(_, _, _, _, _, _, _, _)
\* what tenacity does with the outcome r of an attempt: return it, raise
\* an error it does not retry, give up after the last attempt (RetryError),
\* or wait and call again
retried(fn, p, has_client, json_mode, prefer_json, attempt_number, waits, r) ==
    IF ~r.raised
      THEN [raised |-> FALSE, error |-> "", text |-> r.text, attempts |-> attempt_number,
            calls |-> r.calls, waits |-> waits]
    ELSE IF ~retry_if_exception_type(r.error)
      THEN [raised |-> TRUE, error |-> r.error, text |-> <<>>, attempts |-> attempt_number,
            calls |-> r.calls, waits |-> waits]
    ELSE IF attempt_number >= stop_after_attempt
      THEN [raised |-> TRUE, error |-> "RetryError", text |-> <<>>,
            attempts |-> attempt_number, calls |-> r.calls, waits |-> waits]
    ELSE retrying(fn, p, has_client, json_mode, prefer_json, attempt_number + 1, r.calls,
                  Append(waits, wait_exponential(attempt_number)))

\* @retry(retry=retry_if_exception_type(...), stop=stop_after_attempt(5),
\* wait=wait_exponential(...)) around the function
retrying(fn, p, has_client, json_mode, prefer_json, attempt_number, calls, waits) ==
    retried(fn, p, has_client, json_mode, prefer_json, attempt_number, waits,
            call_once(fn, p, has_client, json_mode, prefer_json, calls))

\* LLMInterface.generate_response(prompt, json_mode=...)
generate_response(p, has_client, json_mode, prefer_json) ==
    retrying("generate_response", p, has_client, json_mode, prefer_json, 1, 0, <<>>)

\* EmbeddingsInterface.embed(texts)
provider_embed(p, has_client) == retrying("embed", p, has_client, FALSE, FALSE, 1, 0, <<>>)

(***************************************************************************)
(*   SpecProvider - one call of generate_response or embed against a       *)
(*                  provider that fails some requests.                     *)
(***************************************************************************)
\* answers in json_object mode: an object, an object cut off by max_tokens,
\* and no content
StrictTexts == {<<"{", "kv", "}">>, <<"{", "kv">>, <<>>}
PlainTexts == {<<"{", "kv", "}">>, <<"w">>, <<>>}

Providers ==
    [error : ProviderErrors, fails : 0..MaxFails, text : PlainTexts,
     strict : {"ok", "unsupported"}, strict_text : StrictTexts]
      \cup [error : {"RateLimitError"}, fails : {0}, text : Texts,
            strict : {"unsupported"}, strict_text : {<<>>}]

InitProvider ==
    /\ fs = [f \in Files |-> Absent]
    /\ EmptyStore
    /\ sidecar = NoSidecar
    /\ client = FALSE
    /\ engine = NewEngine(FALSE)
    /\ NoCallYet

\* the call leaves the store, the indexer and the retriever alone
ProviderCall ==
    /\ arg = NoArg
    /\ UNCHANGED <<fs, client, store, sidecar, ops, engine, now>>
    /\ UNCHANGED passvars

\* llm.generate_response(prompt, json_mode=json_mode)
GenerateResponse ==
    \E p \in Providers, has_client \in BOOLEAN, json_mode \in BOOLEAN, prefer_json \in BOOLEAN :
        /\ ProviderCall
        /\ arg' = [fn |-> "generate_response", provider |-> p, has_client |-> has_client,
                   json_mode |-> json_mode, prefer_json |-> prefer_json]
        /\ \E r \in {generate_response(p, has_client, json_mode, prefer_json)} :
               out' = [fn |-> "generate_response", raised |-> r.raised, error |-> r.error,
                       text |-> r.text, attempts |-> r.attempts, calls |-> r.calls,
                       waits |-> r.waits]
        /\ lastop' = Step("generate_response", "api", 0)

\* embeddings.embed(texts)
Embed ==
    \E p \in Providers, has_client \in BOOLEAN :
        /\ ProviderCall
        /\ arg' = [fn |-> "embed", provider |-> p, has_client |-> has_client,
                   json_mode |-> FALSE, prefer_json |-> FALSE]
        /\ \E r \in {provider_embed(p, has_client)} :
               out' = [fn |-> "embed", raised |-> r.raised, error |-> r.error,
                       text |-> r.text, attempts |-> r.attempts, calls |-> r.calls,
                       waits |-> r.waits]
        /\ lastop' = Step("embed", "api", 0)

NextProvider ==
    \/ GenerateResponse
    \/ Embed

SpecProvider == InitProvider /\ [][NextProvider]_vars

(***************************************************************************)
(* Database._migrate.  The file's schema is kept in arg: the rows of       *)
(* schema_version, the tables that exist and whether nodes has the columns *)
(* of migration 3; the rows of the tables are the store variables.         *)
(***************************************************************************)
Tables1 == {"schema_version", "nodes", "edges", "nodes_fts", "embeddings", "file_hashes"}
Tables2 == {"index_runs", "repo_maps", "repo_map_entries", "repo_map_entries_fts"}

\* the schema of a file no Database was opened on, and of a file left by a
\* release whose last migration was number v
DbFile(v) ==
    [fn |-> "db_file",
     schema_version |-> IF v = 0 THEN <<>> ELSE <<v>>,
     tables |-> IF v = 0 THEN {} ELSE IF v = 1 THEN Tables1 ELSE Tables1 \cup Tables2,
     next_columns |-> v >= 3]

\* Migration 1: CREATE TABLE IF NOT EXISTS for the five tables, then the
\* version row is replaced by 1
migration_1(db, current_version) ==
    IF current_version < 1
      THEN [db EXCEPT !.file.tables = @ \cup Tables1,
                      !.file.schema_version = <<1>>,
                      !.applied = Append(@, 1)]
      ELSE db

\* Migration 2: the tables of the repo map, then the version row is 2
migration_2(db, current_version) ==
    IF current_version < 2
      THEN [db EXCEPT !.file.tables = @ \cup Tables2,
                      !.file.schema_version = <<2>>,
                      !.applied = Append(@, 2)]
      ELSE db

\* INSERT INTO nodes_fts (...) SELECT ... FROM nodes
fts_from_nodes(rows) ==
    SetToBag({[id |-> id, name |-> rows[id].name, content |-> rows[id].content] :
                 id \in DOMAIN rows})

\* mutant: nodes_fts is dropped and created again but not filled from nodes
migration_3_no_backfill(db, current_version, rows) ==
    IF current_version < 3
      THEN [db EXCEPT !.file.next_columns = TRUE,
                      !.file.schema_version = <<3>>,
                      !.fts = EmptyBag,
                      !.applied = Append(@, 3)]
      ELSE db

\* Migration 3: the columns are added to nodes, nodes_fts is dropped,
\* created with its new columns and filled from nodes, the version row is 3
migration_3(db, current_version, rows) ==
    IF current_version < 3
      THEN [db EXCEPT !.file.next_columns = TRUE,
                      !.file.schema_version = <<3>>,
                      !.fts = fts_from_nodes(rows),
                      !.applied = Append(@, 3)]
      ELSE db

\* SELECT version FROM schema_version; row[0] if row else 0
current_version_of(file) ==
    IF file.schema_version = <<>> THEN 0 ELSE Head(file.schema_version)

\* Database._migrate: current_version is set to 1 by migration 1 and is not
\* changed by migration 2
migrate(file, fts, rows) ==
    migration_3(
        migration_2(
            migration_1([file |-> [file EXCEPT !.tables = @ \cup {"schema_version"}],
                         fts |-> fts, applied |-> <<>>],
                        current_version_of(file)),
            Max(current_version_of(file), 1)),
        Max(current_version_of(file), 1), rows)

(***************************************************************************)
(*   SpecMigrate - a database file of some schema version is opened, nodes *)
(*                 are written and deleted, and it is opened again.        *)
(***************************************************************************)
MigrateTrees == [Files -> {Absent} \cup (1..MaxContent)]

InitMigrate ==
    /\ \E v \in 0..3 :
          /\ arg = DbFile(v)
          /\ fs \in IF v = 0 THEN {[f \in Files |-> Absent]} ELSE MigrateTrees
    /\ StoreOf(fs)
    /\ embeddings \in SweptTables(fs)
    /\ sidecar = NoSidecar
    /\ client = FALSE
    /\ engine = NewEngine(FALSE)
    /\ now = 0
    /\ out = NoOut
    /\ IdlePass
    /\ lastop = Step("init", "api", 0)
    /\ ops = 0

\* Database(db_path): __init__ runs _migrate
OpenDatabase ==
    /\ ops < MaxOps
    /\ ops' = ops + 1
    /\ \E r \in {migrate(arg, nodes_fts, nodes)} :
          /\ arg' = r.file
          /\ nodes_fts' = r.fts
          /\ out' = [fn |-> "Database", raised |-> FALSE,
                     from |-> IF out.fn = "Database" THEN out.from ELSE current_version_of(arg),
                     opens |-> IF out.fn = "Database" THEN out.opens + 1 ELSE 1,
                     log |-> (IF out.fn = "Database" THEN out.log ELSE <<>>) \o r.applied,
                     before |-> [nodes |-> nodes, nodes_fts |-> nodes_fts, edges |-> edges,
                                 embeddings |-> embeddings, file_hashes |-> file_hashes]]
    /\ lastop' = Step("Database", "api", 0)
    /\ UNCHANGED <<fs, client, nodes, edges, embeddings, file_hashes, index_runs, repo_maps,
                   sidecar, engine, now>>
    /\ UNCHANGED passvars

\* db.add_node(node) on an open Database
MigrateAddNode ==
    /\ out.fn = "Database"
    /\ DbAddNode

\* db.delete_nodes_by_filepath(path) on an open Database
MigrateDeleteNodes ==
    /\ out.fn = "Database"
    /\ DbDeleteNodes

NextMigrate ==
    \/ OpenDatabase
    \/ MigrateAddNode
    \/ MigrateDeleteNodes

SpecMigrate == InitMigrate /\ [][NextMigrate]_vars

(***************************************************************************)
(* The repo map of an index run.  A row of index_runs is kept with its     *)
(* created_at, the time.time() of create_index_run; successive calls read  *)
(* increasing times, and the rows compare as their times do.               *)
(***************************************************************************)
Roots == {"root", "other"}

\* Database.create_index_run: the new row is pending; its id is the next
\* rowid
create_index_run(repo_root) ==
    index_runs' = Append(index_runs,
                         [repo_root |-> repo_root, status |-> "pending", created_at |-> now])

\* no row: get_latest_repo_map returns None
NoPayload == [repo_root |-> None, generated_at |-> 0]

\* the payload index_workspace builds for its run
repo_map_payload(root_path, id) == [repo_root |-> root_path, generated_at |-> id]

\* Database.store_repo_map: one row of repo_maps for the run
store_repo_map(id, payload) ==
    repo_maps' = [r \in DOMAIN repo_maps \cup {id} |-> IF r = id THEN payload ELSE repo_maps[r]]

\* the first row of the rows given when they are ordered by created_at DESC
latest_of(ids) ==
    CHOOSE id \in ids : \A other \in ids : index_runs[other].created_at <= index_runs[id].created_at

\* mutant: the WHERE clause lacks r.status = 'success'
get_latest_repo_map_any_status(repo_root) ==
    LET joined == {id \in DOMAIN repo_maps \cap DOMAIN index_runs :
                      index_runs[id].repo_root = repo_root}
    IN IF joined = {} THEN NoPayload ELSE repo_maps[latest_of(joined)]

\* Database.get_latest_repo_map: repo_maps JOIN index_runs, the rows of the
\* root with status success, ORDER BY created_at DESC LIMIT 1
get_latest_repo_map(repo_root) ==
    LET joined == {id \in DOMAIN repo_maps \cap DOMAIN index_runs :
                      /\ index_runs[id].repo_root = repo_root
                      /\ index_runs[id].status = "success"}
    IN IF joined = {} THEN NoPayload ELSE repo_maps[latest_of(joined)]

(***************************************************************************)
(*   SpecRuns - index_workspace is called for two roots, several calls at  *)
(*              a time; some calls raise, some runs are marked failed;     *)
(*              get_latest_repo_map is asked in between.                   *)
(***************************************************************************)
InitRuns ==
    /\ fs = [f \in Files |-> Absent]
    /\ EmptyStore
    /\ sidecar = NoSidecar
    /\ client = FALSE
    /\ engine = NewEngine(FALSE)
    /\ NoCallYet

\* the calls leave the other tables, the tree and the retriever alone
RunsCall ==
    /\ UNCHANGED <<fs, client, nodes, nodes_fts, edges, embeddings, file_hashes, sidecar, ops,
                   engine>>
    /\ UNCHANGED passvars

\* index_workspace(root_path): run_id = self.db.create_index_run(...)
RunCreate ==
    \E root \in Roots :
        /\ Len(index_runs) < MaxRuns
        /\ create_index_run(root)
        /\ now' = now + 1
        /\ lastop' = Step("create_index_run", "coordinator", 0)
        /\ RunsCall
        /\ UNCHANGED <<repo_maps, arg, out>>

\* index_workspace: self.db.store_repo_map(run_id, repo_map_payload, ...)
RunStore ==
    \E id \in DOMAIN index_runs :
        /\ index_runs[id].status = "pending"
        /\ id \notin DOMAIN repo_maps
        /\ store_repo_map(id, repo_map_payload(index_runs[id].repo_root, id))
        /\ lastop' = Step("store_repo_map", "coordinator", 0)
        /\ RunsCall
        /\ UNCHANGED <<index_runs, now, arg, out>>

\* index_workspace: self.db.complete_index_run(run_id, "success"), after
\* store_repo_map returned
RunComplete ==
    \E id \in DOMAIN index_runs :
        /\ index_runs[id].status = "pending"
        /\ id \in DOMAIN repo_maps
        /\ complete_index_run(id, "success")
        /\ lastop' = Step("complete_index_run", "coordinator", 0)
        /\ RunsCall
        /\ UNCHANGED <<repo_maps, now, arg, out>>

\* db.complete_index_run(run_id, "failed") for a run whose call raised
RunFail ==
    \E id \in DOMAIN index_runs :
        /\ index_runs[id].status = "pending"
        /\ complete_index_run(id, "failed")
        /\ lastop' = Step("fail_index_run", "api", 0)
        /\ RunsCall
        /\ UNCHANGED <<repo_maps, now, arg, out>>

\* db.get_latest_repo_map(repo_root)
GetLatestRepoMap ==
    \E root \in Roots :
        /\ arg' = [fn |-> "get_latest_repo_map", repo_root |-> root]
        /\ out' = [fn |-> "get_latest_repo_map", raised |-> FALSE,
                   payload |-> get_latest_repo_map(root)]
        /\ lastop' = Step("get_latest_repo_map", "api", 0)
        /\ RunsCall
        /\ UNCHANGED <<index_runs, repo_maps, now>>

NextRuns ==
    \/ RunCreate
    \/ RunStore
    \/ RunComplete
    \/ RunFail
    \/ GetLatestRepoMap

SpecRuns == InitRuns /\ [][NextRuns]_vars

(***************************************************************************)
(* The walk of index_workspace and the ignore rules of _load_gitignore.    *)
(* A path is the sequence of its components below the root.  A pattern is  *)
(* a record: kind "name" (a line without a slash, such as node_modules),   *)
(* "dir" (name/), "rooted" (/name) or "ext" (a star and an extension), and  *)
(* include = FALSE for a line that starts with "!".                        *)
(***************************************************************************)
DirNames == {"src", "gen", "node_modules", ".next"}
FileNames == {"a.py", "k.pem"}

\* os.path.splitext(name)[1]
splitext(name) == IF name = "a.py" THEN "py" ELSE IF name = "k.pem" THEN "pem" ELSE ""

Pattern(kind, name, include) == [kind |-> kind, name |-> name, include |-> include]

\* default_ignores of _load_gitignore (those that name something of the
\* model's trees)
default_ignores == {Pattern("name", "node_modules", TRUE), Pattern("ext", "pem", TRUE)}

\* settings.next_ignore_dirs
next_ignore_dirs == {".next", "node_modules"}

\* one gitignore pattern matched against a path; slash: the path is given
\* with a trailing "/".  A pattern that matches a directory matches
\* everything below it.
pattern_match(pat, path, slash) ==
    IF pat.kind = "name" THEN \E i \in DOMAIN path : path[i] = pat.name
    ELSE IF pat.kind = "dir"
      THEN \E i \in DOMAIN path : path[i] = pat.name /\ (i < Len(path) \/ slash)
    ELSE IF pat.kind = "rooted" THEN path # <<>> /\ path[1] = pat.name
    ELSE \E i \in DOMAIN path : splitext(path[i]) = pat.name

RECURSIVE match_file(_, _, _, _)
\* PathSpec.match_file: the last pattern that matches decides; matched is
\* the decision so far
match_file(patterns, path, slash, matched) ==
    IF patterns = <<>> THEN matched
    ELSE match_file(Tail(patterns), path, slash,
                    IF pattern_match(Head(patterns), path, slash)
                      THEN Head(patterns).include
                      ELSE matched)

RECURSIVE list_of(_)
\* list(default_ignores): the patterns of the set in some order; all of them
\* exclude, so their order decides nothing
list_of(S) ==
    IF S = {} THEN <<>>
    ELSE LET x == CHOOSE y \in S : TRUE IN <<x>> \o list_of(S \ {x})

\* the patterns _load_gitignore collects: the defaults, the deny globs and
\* the lines of .gitignore; when reading the file raises (it is not UTF-8)
\* the exception is passed over and no line is added
load_gitignore(deny_globs, gitignore) ==
    list_of(default_ignores \cup deny_globs)
        \o (IF gitignore.exists /\ gitignore.decodable THEN gitignore.lines ELSE <<>>)

\* is_ignored(path) of _load_gitignore
is_ignored(patterns, path) ==
    \/ match_file(patterns, path, FALSE, FALSE)
    \/ match_file(patterns, path, TRUE, FALSE)

\* the names os.walk lists in a directory of the tree
dirs_of(tree, root) ==
    {p[Len(root) + 1] : p \in {q \in tree : Len(q) > Len(root) + 1
                                               /\ SubSeq(q, 1, Len(root)) = root}}
files_of(tree, root) ==
    {p \in tree : Len(p) = Len(root) + 1 /\ SubSeq(p, 1, Len(root)) = root}

RECURSIVE walk(_, _, _)
\* for root, dirs, files in os.walk(root_path): the directories that are
\* ignored or named in next_ignore_dirs are removed from dirs, the files
\* that are not ignored are the files to process
walk(tree, patterns, root) ==
    LET kept == {d \in dirs_of(tree, root) :
                    ~is_ignored(patterns, Append(root, d)) /\ d \notin next_ignore_dirs}
        below == {walk(tree, patterns, Append(root, d)) : d \in kept}
    IN [visited |-> {root} \cup UNION {b.visited : b \in below},
        files |-> {p \in files_of(tree, root) : ~is_ignored(patterns, p)}
                      \cup UNION {b.files : b \in below}]

(***************************************************************************)
(*   SpecWalk - index_workspace walks one drawn tree under drawn rules.    *)
(***************************************************************************)
WalkPaths ==
    {<<"a.py">>, <<"k.pem">>, <<"src", "a.py">>, <<"src", "k.pem">>, <<"gen", "a.py">>,
     <<"node_modules", "a.py">>, <<".next", "a.py">>, <<"src", "gen", "a.py">>}
WalkTrees == SUBSET WalkPaths

GitignoreLines ==
    {Pattern("name", "gen", TRUE), Pattern("dir", "gen", TRUE), Pattern("rooted", "gen", TRUE),
     Pattern("dir", "src", TRUE), Pattern("name", "a.py", FALSE), Pattern("ext", "py", TRUE)}
Gitignores ==
    {[exists |-> FALSE, decodable |-> TRUE, lines |-> <<>>]}
        \cup [exists : {TRUE}, decodable : BOOLEAN,
              lines : UNION {[1..n -> GitignoreLines] : n \in 1..MaxLines}]
DenyGlobs == {{}, {Pattern("ext", "py", TRUE)}}

InitWalk ==
    /\ fs = [f \in Files |-> Absent]
    /\ EmptyStore
    /\ sidecar = NoSidecar
    /\ client = FALSE
    /\ engine = NewEngine(FALSE)
    /\ NoCallYet

\* index_workspace(root_path) up to the submission of the files: every file
\* to process is handed to _process_file, which opens and hashes it
Walk ==
    /\ arg = NoArg
    /\ \E tree \in WalkTrees, gitignore \in Gitignores, deny_globs \in DenyGlobs :
        /\ arg' = [fn |-> "walk", tree |-> tree, gitignore |-> gitignore,
                   deny_globs |-> deny_globs]
        /\ \E r \in {walk(tree, load_gitignore(deny_globs, gitignore), <<>>)} :
               out' = [fn |-> "walk", raised |-> FALSE, visited |-> r.visited,
                       files_to_process |-> r.files]
        /\ lastop' = Step("walk", "coordinator", 0)
        /\ UNCHANGED <<fs, client, store, sidecar, ops, engine, now>>
        /\ UNCHANGED passvars

NextWalk ==
    \/ Walk

SpecWalk == InitWalk /\ [][NextWalk]_vars

(***************************************************************************)
(*   SpecSwap - one RetrievalEngine used by two threads while the indexer  *)
(*              rebuilds the sidecar beside them.  The code holds no lock: *)
(*              a thread is interleaved with the others between two of its *)
(*              attribute assignments and file writes.                     *)
(***************************************************************************)
Threads == {"search", "indexer"}

\* a thread between two calls
IdleThread == [at |-> "idle", todo |-> <<>>]

\* an assignment or file write a thread still has to make: the attribute or
\* file, the rows written, and the build or refresh the rows come from
Write(target, rows, gen) == [target |-> target, rows |-> rows, gen |-> gen]

\* which build or refresh every shared value comes from (0: construction),
\* the number of the next build, and the time of the last SELECT of
\* _refresh_cache_if_needed (-1: none yet)
NoTags == [index |-> 0, id_map |-> 0, cache_matrix |-> 0, cache_ids |-> 0,
           bin |-> 0, map |-> 0, next |-> 1, loaded_at |-> 0 - 1]

\* what the reading thread holds: nothing, or the vectors it took
NoRead == [fn |-> "none", vecs_gen |-> 0, ids_gen |-> 0]

\* stored vectors of the dimension of the index
IndexableVectors == {v \in StoredVectors : Len(v) = dim}

\* untouched by the threads of SpecSwap
swapfixed == <<fs, client, nodes, nodes_fts, edges, file_hashes, index_runs, repo_maps,
               pc, force, run_id, files_to_process, task, collected, stats, batches, result>>

\* one python file with one function, one text file
SwapTree == [f \in Files |-> 1]

InitSwap ==
    /\ fs = SwapTree
    /\ StoreOf(fs)
    /\ embeddings \in SweptTables(fs)
    /\ sidecar = NoSidecar
    /\ client = TRUE
    /\ engine \in {NewEngine(available) : available \in BOOLEAN}
    /\ now = 0
    /\ arg = [t \in Threads |-> IdleThread]
    /\ out = NoRead
    /\ lastop = Step("init", "api", 0)
    /\ ops = 0
    /\ pc = "idle"
    /\ force = FALSE
    /\ run_id = 0
    /\ files_to_process = <<>>
    /\ task = [f \in Files |-> NoTask]
    /\ collected = 0
    /\ stats = ZeroStats
    /\ batches = <<>>
    /\ result = [status |-> "none", stats |-> ZeroStats]
    /\ budget = [passes |-> 0, edits |-> 0, faults |-> 0]
    /\ hist = NoTags

\* _dense_search, lines 94-95: the thread goes to load, to the query of the
\* index, or to the brute-force search
DsEnter ==
    /\ arg["search"] = IdleThread
    /\ arg' = [arg EXCEPT !["search"].at =
                  IF retrieval_enable_ann /\ engine.ann_index.available
                    THEN IF engine.ann_index.built THEN "query" ELSE "load"
                    ELSE "brute"]
    /\ lastop' = Step("_dense_search", "search", 0)
    /\ UNCHANGED <<embeddings, sidecar, budget, hist, engine, now, out>>
    /\ UNCHANGED swapfixed

\* one of the MaxCalls calls of _dense_search
DsCall ==
    /\ ops < MaxCalls
    /\ ops' = ops + 1
    /\ DsEnter

\* a retriever that lives on is called again and again
DsCallAgain ==
    /\ DsEnter
    /\ UNCHANGED ops

\* ANNIndex.load, lines 90-101: the files are read; the id map is assigned
\* at line 96, the index at line 101
DsLoad ==
    /\ arg["search"].at = "load"
    /\ arg["search"].todo = <<>>
    /\ arg' = [arg EXCEPT !["search"] =
         IF sidecar.bin.state = "missing" \/ sidecar.map.state # "saved"
           THEN [at |-> "refresh_for_build", todo |-> <<>>]
         ELSE IF sidecar.bin.state = "corrupt"
           THEN [at |-> "refresh_for_build",
                 todo |-> <<Write("id_map", sidecar.map.rows, hist.map)>>]
         ELSE [at |-> "query",
               todo |-> <<Write("id_map", sidecar.map.rows, hist.map),
                          Write("index", sidecar.bin.rows, hist.bin)>>]]
    /\ lastop' = Step("load", "search", 0)
    /\ UNCHANGED <<embeddings, sidecar, ops, budget, hist, engine, now, out>>
    /\ UNCHANGED swapfixed

\* _refresh_cache_if_needed, lines 139-160: within 60 s of the last load of
\* a matrix nothing is read; else the rows are selected and the assignments
\* of lines 151-153 or 161-163 are left to make; np.vstack raising ends the
\* call after line 161
DsRefresh ==
    /\ arg["search"].at \in {"refresh_for_build", "brute"}
    /\ arg["search"].todo = <<>>
    /\ LET next == IF arg["search"].at = "brute" THEN "scores" ELSE "build"
           ids == embedding_ids(embeddings_model)
           vecs == embedding_vecs(embeddings_model)
           g == hist.next
       IN IF engine.cache_loaded /\ now - engine.cache_timestamp < cache_ttl
            THEN /\ arg' = [arg EXCEPT !["search"].at = next]
                 /\ lastop' = Step("cache_fresh", "search", 0)
                 /\ UNCHANGED hist
            ELSE /\ arg' = [arg EXCEPT !["search"] =
                      IF ids = <<>>
                        THEN [at |-> next,
                              todo |-> <<Write("cache_none", <<>>, g),
                                         Write("cache_ids", <<>>, g),
                                         Write("cache_timestamp", <<>>, g)>>]
                      ELSE IF vstack_raises(vecs)
                        THEN [at |-> "idle", todo |-> <<Write("cache_ids", ids, g)>>]
                      ELSE [at |-> next,
                            todo |-> <<Write("cache_ids", ids, g),
                                       Write("cache_matrix", vecs, g),
                                       Write("cache_timestamp", <<>>, g)>>]]
                 /\ lastop' = Step("select_embeddings", "search", 0)
                 /\ hist' = [hist EXCEPT !.next = g + 1, !.loaded_at = now]
    /\ UNCHANGED <<embeddings, sidecar, ops, budget, engine, now, out>>
    /\ UNCHANGED swapfixed

\* _dense_search lines 98-99 and ANNIndex.build: the index is assigned at
\* line 48, the id map at line 49, then save writes the index file (line
\* 78) and the map file (lines 79-81)
DsBuild ==
    /\ arg["search"].at = "build"
    /\ arg["search"].todo = <<>>
    /\ LET g == hist.next
       IN IF ~engine.cache_loaded \/ Len(engine.cache_ids) = 0
            THEN /\ arg' = [arg EXCEPT !["search"].at = "brute"]
                 /\ UNCHANGED hist
          ELSE IF add_items_raises(engine.cache_matrix)
            THEN /\ arg' = [arg EXCEPT !["search"].at = "idle"]
                 /\ UNCHANGED hist
          ELSE /\ arg' = [arg EXCEPT !["search"] =
                    [at |-> "query",
                     todo |-> <<Write("index", engine.cache_matrix, g),
                                Write("id_map", engine.cache_ids, g),
                                Write("bin", engine.cache_matrix, g),
                                Write("map", engine.cache_ids, g)>>]]
               /\ hist' = [hist EXCEPT !.next = g + 1]
    /\ lastop' = Step("build", "search", 0)
    /\ UNCHANGED <<embeddings, sidecar, ops, budget, engine, now, out>>
    /\ UNCHANGED swapfixed

\* the hits are computed and the call returns
DsReturn ==
    /\ arg["search"].at \in {"query", "scores"}
    /\ arg["search"].todo = <<>>
    /\ arg' = [arg EXCEPT !["search"] = IdleThread]
    /\ lastop' = Step("return", "search", 0)
    /\ UNCHANGED <<embeddings, sidecar, ops, budget, hist, engine, now, out>>
    /\ UNCHANGED swapfixed

\* the engine after one attribute assignment
assigned(e, w) ==
    IF w.target = "index"
      THEN [e EXCEPT !.ann_index.built = TRUE, !.ann_index.vecs = w.rows]
    ELSE IF w.target = "id_map" THEN [e EXCEPT !.ann_index.id_map = w.rows]
    ELSE IF w.target = "cache_ids" THEN [e EXCEPT !.cache_ids = w.rows]
    ELSE IF w.target = "cache_matrix"
      THEN [e EXCEPT !.cache_loaded = TRUE, !.cache_matrix = w.rows]
    ELSE IF w.target = "cache_none"
      THEN [e EXCEPT !.cache_loaded = FALSE, !.cache_matrix = <<>>]
    ELSE IF w.target = "cache_timestamp" THEN [e EXCEPT !.cache_timestamp = now]
    ELSE e

\* the sidecar after one file write
written(files, w) ==
    IF w.target = "bin" THEN [files EXCEPT !.bin = SavedFile(w.rows)]
    ELSE IF w.target = "map" THEN [files EXCEPT !.map = SavedFile(w.rows)]
    ELSE files

\* the tags after one assignment or file write
tagged(tags, w) ==
    IF w.target = "index" THEN [tags EXCEPT !.index = w.gen]
    ELSE IF w.target = "id_map" THEN [tags EXCEPT !.id_map = w.gen]
    ELSE IF w.target = "cache_ids" THEN [tags EXCEPT !.cache_ids = w.gen]
    ELSE IF w.target \in {"cache_matrix", "cache_none"} THEN [tags EXCEPT !.cache_matrix = w.gen]
    ELSE IF w.target = "bin" THEN [tags EXCEPT !.bin = w.gen]
    ELSE IF w.target = "map" THEN [tags EXCEPT !.map = w.gen]
    ELSE tags

\* a thread makes its next assignment or file write
Assign ==
    \E t \in Threads :
        /\ arg[t].todo # <<>>
        /\ engine' = assigned(engine, Head(arg[t].todo))
        /\ sidecar' = written(sidecar, Head(arg[t].todo))
        /\ hist' = tagged(hist, Head(arg[t].todo))
        /\ arg' = [arg EXCEPT ![t].todo = Tail(@)]
        /\ lastop' = Step(Head(arg[t].todo).target, t, 0)
        /\ UNCHANGED <<embeddings, ops, budget, now, out>>
        /\ UNCHANGED swapfixed

\* ANNIndex.save, lines 76-84: a write raises and save logs the error; the
\* index file is left as it was, the map file as it was (open failed) or
\* truncated (json.dump failed)
SaveFails ==
    \E t \in Threads, truncated \in BOOLEAN :
        /\ arg[t].todo # <<>>
        /\ Head(arg[t].todo).target \in {"bin", "map"}
        /\ budget.faults < MaxFaults
        /\ budget' = [budget EXCEPT !.faults = @ + 1]
        /\ sidecar' = IF Head(arg[t].todo).target = "map" /\ truncated
                        THEN [sidecar EXCEPT !.map = CorruptFile]
                        ELSE sidecar
        /\ arg' = [arg EXCEPT ![t].todo = <<>>]
        /\ lastop' = Step("save_failed", t, 0)
        /\ UNCHANGED <<embeddings, ops, hist, engine, now, out>>
        /\ UNCHANGED swapfixed

\* another thread in _dense_search takes the vectors it searches: the index
\* (ANNIndex.query line 61) or the cached matrix (_brute_force_search line
\* 122, the cache being fresh)
ReadVectors ==
    /\ out.fn \in {"none", "read"}
    /\ \/ /\ retrieval_enable_ann /\ engine.ann_index.available /\ engine.ann_index.built
          /\ out' = [fn |-> "knn_query", vecs_gen |-> hist.index, ids_gen |-> 0]
       \/ /\ ~(retrieval_enable_ann /\ engine.ann_index.available /\ engine.ann_index.built)
          /\ engine.cache_loaded /\ now - engine.cache_timestamp < cache_ttl
          /\ out' = [fn |-> "dot", vecs_gen |-> hist.cache_matrix, ids_gen |-> 0]
    /\ lastop' = Step("read_vectors", "reader", 0)
    /\ UNCHANGED <<embeddings, sidecar, ops, budget, hist, engine, now, arg>>
    /\ UNCHANGED swapfixed

\* and then maps the labels it found to node ids: id_map (query line 65) or
\* the cached ids (_brute_force_search line 132)
ReadIds ==
    /\ out.fn \in {"knn_query", "dot"}
    /\ out' = [fn |-> "read", vecs_gen |-> out.vecs_gen,
               ids_gen |-> IF out.fn = "knn_query" THEN hist.id_map ELSE hist.cache_ids]
    /\ lastop' = Step("read_ids", "reader", 0)
    /\ UNCHANGED <<embeddings, sidecar, ops, budget, hist, engine, now, arg>>
    /\ UNCHANGED swapfixed

\* the sweep of the indexer stores the vector of one chunk
IndexerUpsert ==
    \E id \in {n \in DOMAIN nodes : nodes[n].type # "file"}, v \in IndexableVectors :
        /\ arg["indexer"] = IdleThread
        /\ budget.edits < MaxEdits
        /\ budget' = [budget EXCEPT !.edits = @ + 1]
        /\ upsert_embeddings_batch({<<id, v, embeddings_model>>})
        /\ lastop' = Op("upsert_embeddings_batch", "indexer", 0, id, embeddings_model, v, NoIds)
        /\ UNCHANGED <<sidecar, ops, hist, engine, now, arg, out>>
        /\ UNCHANGED swapfixed

\* _generate_embeddings, lines 177-197: an ANNIndex of the indexer's own is
\* built from all rows of the model, and saved
IndexerRebuild ==
    /\ arg["indexer"] = IdleThread
    /\ budget.passes < MaxRebuilds
    /\ budget' = [budget EXCEPT !.passes = @ + 1]
    /\ LET ids == embedding_ids(embeddings_model)
           vecs == embedding_vecs(embeddings_model)
           g == hist.next
       IN IF ids = <<>> \/ vstack_raises(vecs) \/ ~engine.ann_index.available
               \/ add_items_raises(vecs)
            THEN UNCHANGED <<arg, hist>>
            ELSE /\ arg' = [arg EXCEPT !["indexer"].todo =
                               <<Write("bin", vecs, g), Write("map", ids, g)>>]
                 /\ hist' = [hist EXCEPT !.next = g + 1]
    /\ lastop' = Step("rebuild", "indexer", 0)
    /\ UNCHANGED <<embeddings, sidecar, ops, engine, now, out>>
    /\ UNCHANGED swapfixed

\* the cache interval passes
Tick ==
    /\ now < cache_ttl
    /\ now' = now + cache_ttl
    /\ lastop' = Step("tick", "clock", 0)
    /\ UNCHANGED <<embeddings, sidecar, ops, budget, hist, engine, arg, out>>
    /\ UNCHANGED swapfixed

NextSwap ==
    \/ DsCall
    \/ DsLoad
    \/ DsRefresh
    \/ DsBuild
    \/ DsReturn
    \/ Assign
    \/ SaveFails
    \/ ReadVectors
    \/ ReadIds
    \/ IndexerUpsert
    \/ IndexerRebuild
    \/ Tick

SpecSwap == InitSwap /\ [][NextSwap]_vars

(***************************************************************************)
(*   SpecFresh - one RetrievalEngine that is searched for ever, with       *)
(*               hnswlib installed and vectors of the dimension of the     *)
(*               index stored, while the indexer stores a vector and       *)
(*               rebuilds the sidecar.  Every thread that can take a step  *)
(*               takes one in the end.                                     *)
(***************************************************************************)
InitFresh ==
    /\ InitSwap
    /\ engine.ann_index.available
    /\ DOMAIN embeddings # {}
    /\ \A k \in DOMAIN embeddings : embeddings[k].dim = dim

SearchStep ==
    \/ DsCallAgain
    \/ DsLoad
    \/ DsRefresh
    \/ DsBuild
    \/ DsReturn

NextFresh ==
    \/ DsCallAgain
    \/ DsLoad
    \/ DsRefresh
    \/ DsBuild
    \/ DsReturn
    \/ Assign
    \/ IndexerUpsert
    \/ IndexerRebuild
    \/ Tick

SpecFresh == InitFresh /\ [][NextFresh]_vars /\ WF_vars(SearchStep) /\ WF_vars(Assign)

(***************************************************************************)
(* Properties                                                              *)
(***************************************************************************)
Abs(x) == IF x < 0 THEN 0 - x ELSE x

\* what a pass that ended by returning its statistics can be asked about
Returned == lastop.op = "return"
Present == {f \in Files : fs[f] # Absent}
\* the pass before the returned one also returned, and no file of the tree
\* was changed in between
Repeated == Returned /\ ~force /\ hist.prev_done /\ hist.prev_fs = fs
\* no file failed in the returned pass nor in the one before
NoFileFailed == hist.prev_errors = 0 /\ stats.errors = 0
\* the files whose content differs between the last two passes
ChangedFiles == {f \in Files : fs[f] # hist.prev_fs[f]}
OldIdsOfFile(f) == {id \in DOMAIN hist.nodes : hist.nodes[id].filepath = f}
\* the rows of file f are the same as at the start of the pass
SameNodes(f) ==
    /\ IdsOfFile(f) = OldIdsOfFile(f)
    /\ \A id \in IdsOfFile(f) : nodes[id] = hist.nodes[id]
SameEdges(f) ==
    {e \in edges : e[1][1] = f} = {e \in hist.edges : e[1][1] = f}
SameHash(f) ==
    /\ (f \in DOMAIN file_hashes) = (f \in DOMAIN hist.file_hashes)
    /\ f \in DOMAIN file_hashes => file_hashes[f] = hist.file_hashes[f]
\* every embedding row of a node of f that existed at the start is unchanged
KeptEmbeddings(f) ==
    \A k \in DOMAIN hist.embeddings :
        k[1][1] = f => k \in DOMAIN embeddings /\ embeddings[k] = hist.embeddings[k]
\* the embedding rows of the nodes of f are exactly those of the start
SameEmbeddings(f) ==
    /\ KeptEmbeddings(f)
    /\ \A k \in DOMAIN embeddings : k[1][1] = f => k \in DOMAIN hist.embeddings
\* nodes, edges and hash of what the task of f parsed are all in the store
NewStored(f) ==
    LET p == parse_file_content(f, task[f].content)
    IN /\ \A n \in p.nodes : get_node(n.id) = NodeRow(n)
       /\ p.edges \subseteq edges
       /\ get_file_hash(f) = sha256(task[f].content)

OneChanged(g) ==
    /\ Returned /\ ~force /\ hist.prev_done
    /\ ChangedFiles = {g}
    /\ fs[g] # Absent /\ hist.prev_fs[g] # Absent

C4_VanishedRemoved ==
    (Returned /\ hist.prev_done) =>
        \A f \in Files :
            (hist.prev_fs[f] \notin {Absent, 0} /\ fs[f] \in {Absent, 0}) => IdsOfFile(f) = {}

\* the tasks that have made a write of their sequence and not yet the last
Writing == {f \in Files : task[f].pc \in {"insert", "edges", "hash"}}

\* C5: during a pass every store mutation is made by the coordinating
\* thread, and no two pool tasks are inside their write sequence at once.
C5_SingleWriter ==
    [][/\ store' # store => lastop'.by = "coordinator"
       /\ Cardinality(Writing') <= 1]_vars

\* C6: no state shows a file whose old nodes are gone while the nodes,
\* edges and hash of its new content are not all stored.
C6_AtomicReplace ==
    \A f \in Files :
        (task[f].should_index /\ OldIdsOfFile(f) # {}
           /\ \A id \in OldIdsOfFile(f) : get_node(id) # hist.nodes[id])
        => NewStored(f)

\* a store-level fault hit the running (or last) pass
StoreFault == hist.coord_fault \/ \E f \in Files : task[f].store_fault

\* C7: when index_workspace returns or raises, its run is success or failed,
\* no longer pending, and it is failed when a store-level fault occurred.
C7_RunTerminal ==
    (lastop.by = "coordinator" /\ lastop.op \in {"return", "raise"}) =>
        /\ index_runs[run_id].status \in {"success", "failed"}
        /\ StoreFault => index_runs[run_id].status = "failed"

Failed == {f \in Files : task[f].pc = "failed"}

\* C8: a failing file never aborts the pass: index_workspace raises only
\* when a call of the coordinator itself failed; a pass that returns has
\* counted every failed file once under errors and every other submitted
\* file once as indexed or skipped, has stored nodes, edges and hash of
\* every other file it re-indexed, and returns these statistics.
C8_FailureIsolation ==
    /\ (lastop.by = "coordinator" /\ lastop.op = "raise") => hist.coord_fault
    /\ Returned =>
         /\ stats.errors = Cardinality(Failed)
         /\ stats.indexed = Cardinality({f \in Present \ Failed : task[f].should_index})
         /\ stats.skipped = Cardinality({f \in Present \ Failed : ~task[f].should_index})
         /\ \A f \in Present \ Failed : task[f].pc = "done"
         /\ \A f \in Present \ Failed : task[f].should_index => NewStored(f)
         /\ result = [status |-> "returned", stats |-> stats]

\* a pass that returned although one file failed, with another file
\* re-indexed
C8_Witness ==
    /\ Returned
    /\ stats.errors = 1
    /\ \E f \in Present \ Failed : task[f].should_index /\ IdsOfFile(f) # {}

C3_DeletionCascade ==
    [][\A f \in Files :
         (lastop'.op = "delete_nodes_by_filepath" /\ lastop'.file = f) =>
            LET ids == IdsOfFile(f)
            IN /\ \A id \in ids :
                    /\ get_node(id)' = NoNode
                    /\ \A q \in Queries : \A n \in search_nodes(q)' : n.id # id
                    /\ \A m \in Models : get_embedding(id, m)' = NoVector
                    /\ \A e \in edges' : e[1] # id /\ e[2] # id
               /\ \A id \in DOMAIN nodes \ ids : get_node(id)' = nodes[id]
               /\ \A k \in DOMAIN embeddings :
                    k[1] \notin ids => k \in DOMAIN embeddings' /\ embeddings'[k] = embeddings[k]
               /\ \A e \in edges : (e[1] \notin ids /\ e[2] \notin ids) => e \in edges'
      ]_vars

\* a deletion that removed nodes of one file while a node of another file,
\* with an embedding or an edge of its own, stayed stored
C3_Witness ==
    /\ lastop.op = "delete_nodes_by_filepath"
    /\ lastop.ids # {}
    /\ \E id \in DOMAIN nodes :
          \/ \E m \in Models : <<id, m>> \in DOMAIN embeddings
          \/ \E e \in edges : e[1] = id \/ e[2] = id

OnlyFile(f, c) ==
    /\ Returned
    /\ Present = {f}
    /\ fs[f] = c
    /\ supported_extensions(f) = "python"
    /\ stats.errors = 0

\* file f has at least two nodes, a whole-file node and a function node
\* named after the function
FileAndFunction(f) ==
    /\ Cardinality(IdsOfFile(f)) >= 2
    /\ \E id \in IdsOfFile(f) : nodes[id].type = "file"
    /\ \E id \in IdsOfFile(f) :
          nodes[id].type = "function_definition" /\ nodes[id].name = DefName(1)

\* C11 as stated: indexing a tree whose only file is a Python file holding
\* one top-level function of two lines (its def line and one body line)
\* stores a whole-file node and a function node of that name; re-indexing
\* it unchanged reports indexed = 0 and skipped = 1.
C11_TwoLineFunction ==
    \A f \in Files :
        OnlyFile(f, TwoLiner) =>
            /\ FileAndFunction(f)
            /\ (Repeated /\ NoFileFailed) => (stats.indexed = 0 /\ stats.skipped = 1)

\* C11 (amended): the same for a function of three lines (its def line and
\* two body lines): a whole-file node and a function node of that name are
\* stored, and re-indexing it unchanged reports indexed = 0, skipped = 1.
C11_ThreeLineFunction ==
    \A f \in Files :
        OnlyFile(f, 1) =>
            /\ FileAndFunction(f)
            /\ (Repeated /\ NoFileFailed) => (stats.indexed = 0 /\ stats.skipped = 1)

\* the three-line function was indexed and then re-indexed unchanged
C11_Witness ==
    \E f \in Files :
        /\ OnlyFile(f, 1)
        /\ Repeated /\ NoFileFailed
        /\ FileAndFunction(f)
        /\ stats.skipped = 1

\* C12 as stated: when the full-text engine rejects the query, search_nodes
\* executes exactly one more MATCH, with every character that is neither
\* alphanumeric nor whitespace stripped; if that one is rejected too, it
\* returns an empty list and does not raise.
C12_QueryRecovery ==
    (out.fn = "search_nodes" /\ fts5_rejects(replace_quotes(arg.query))) =>
        /\ out.executed = <<replace_quotes(arg.query), sanitize(replace_quotes(arg.query))>>
        /\ ~out.raised
        /\ fts5_rejects(sanitize(replace_quotes(arg.query))) => out.nodes = {}

\* C19 ANN unavailability fallback: an unavailable ANNIndex does nothing in
\* build, query and load and returns empty or False without raising, and
\* _dense_search answers by exact search over the cached vectors whenever
\* the index is unavailable or no index could be loaded or built.
C19_AnnFallback ==
    [][/\ (lastop'.op = "build" /\ ~engine.ann_index.available) =>
            (~out'.raised /\ engine' = engine /\ sidecar' = sidecar)
       /\ (lastop'.op = "load" /\ ~engine.ann_index.available) =>
            (~out'.raised /\ ~out'.ok /\ engine' = engine)
       /\ (lastop'.op = "query" /\ ~engine.ann_index.available) =>
            (~out'.raised /\ out'.hits = <<>>)
       /\ \A disk_ok \in BOOLEAN :
            LET p == prepare_index(engine, sidecar, disk_ok)
                exact == brute_force_search(engine, asarray_float32(arg'.vector), arg'.k)
            IN (/\ lastop'.op = "_dense_search"
                /\ \/ ~engine.ann_index.available
                   \/ p.raised
                   \/ ~p.engine.ann_index.built)
               => (out'.raised = exact.raised /\ out'.hits = exact.hits)
      ]_vars

\* C20 ANN build and load never crash: build with an empty id list leaves
\* the index and the files as they were, and load returns False without
\* raising when the index file or the id-map file is missing or corrupt.
C20_BuildLoadNeverCrash ==
    [][/\ (lastop'.op = "build" /\ arg'.ids = <<>>) =>
            (~out'.raised /\ engine' = engine /\ sidecar' = sidecar)
       /\ (/\ lastop'.op = "load"
           /\ \/ sidecar.bin.state \in {"missing", "corrupt"}
              \/ sidecar.map.state \in {"missing", "corrupt"})
          => (~out'.raised /\ ~out'.ok)
      ]_vars

\* an available index was asked to load an unreadable index file next to a
\* readable id map, and reported the failure
C20_Witness ==
    /\ out.fn = "load"
    /\ engine.ann_index.available
    /\ sidecar.bin.state = "corrupt"
    /\ sidecar.map.state = "saved"
    /\ ~out.ok

\* C13 lexical-only degradation: with no embedding provider and the ANN
\* index unavailable, retrieve does not raise and, when the lexical search
\* has a hit, returns a non-empty list made of lexical hits and their graph
\* neighbours, none of them scored by the dense search.
C13_LexicalOnly ==
    (out.fn = "retrieve" /\ ~client /\ ~engine.ann_index.available) =>
        /\ ~out.raised
        /\ out.stages.sparse_ids # <<>> => out.results # <<>>
        /\ \A i \in DOMAIN out.results :
              /\ out.results[i].id \in out.stages.expanded
              /\ out.results[i].reason \notin {"dense", "hybrid"}

\* a lexical-only retrieve with hits whose LLM rerank call failed
C13_Witness ==
    /\ out.fn = "retrieve"
    /\ ~client
    /\ ~engine.ann_index.available
    /\ arg.llm = LlmRaises
    /\ out.stages.sparse_ids # <<>>
    /\ out.results # <<>>

\* C14 stage isolation: whatever sub-calls of a retrieval fail (embedding
\* calls, dense search, graph expansion, rerank, diversification), retrieve
\* does not raise and returns results whenever the lexical search has hits.
C14_StageIsolation ==
    out.fn = "retrieve" =>
        /\ ~out.raised
        /\ out.stages.sparse_ids # <<>> => out.results # <<>>

FusedLists ==
    IF out.fn = "fuse"
      THEN <<arg.sparse_ids, [i \in DOMAIN arg.dense_hits |-> arg.dense_hits[i].id]>>
      ELSE arg.rrf_lists

\* document a is in every list that holds document b, and never behind it
NeverBehind(lists, a, b) ==
    \A l \in DOMAIN lists :
        \A j \in DOMAIN lists[l] :
            lists[l][j] = b => \E i \in 1..j : lists[l][i] = a

\* C15 fusion monotonicity: a fusion gives every document the sum over the
\* lists of 1 / (60 + rank + 1); a document that is in every list of another
\* one, never at a worse rank, has no lower fused score; the fused list is
\* sorted by descending score.
C15_FusionMonotone ==
    out.fn \in {"fuse", "rrf"} =>
        LET rrf(id) == IF out.fn = "rrf" THEN fused_score(FusedLists, id)
                       ELSE (fused_score(FusedLists, id) * Scale) \div RrfScale
        IN /\ \A i \in DOMAIN out.list : out.list[i].score = rrf(out.list[i].id)
           /\ \A i, j \in DOMAIN out.list :
                 NeverBehind(FusedLists, out.list[i].id, out.list[j].id)
                     => out.list[i].score >= out.list[j].score
           /\ \A i, j \in DOMAIN out.list : i < j => out.list[i].score >= out.list[j].score

\* the similarity _mmr computes between a candidate and a vector
SimTo(c, v) == cosine(engine.cache_matrix[cache_row(engine, c.id)], v)
SimOf(c, d) == SimTo(c, engine.cache_matrix[cache_row(engine, d.id)])
\* the greatest similarity of a candidate to the candidates of a list
MaxSim(c, selected) ==
    LET sims == {SimOf(c, selected[j]) : j \in DOMAIN selected}
    IN CHOOSE x \in sims : \A y \in sims : y <= x
\* the candidates _mmr selects from: those with a vector in the cache
Selectable(candidates) ==
    SelectSeq(candidates, LAMBDA c : \E i \in DOMAIN engine.cache_ids : engine.cache_ids[i] = c.id)

\* C16 MMR bounds: with lambda = 1 the selection is in non-increasing order
\* of similarity to the query and passes over no candidate more similar than
\* a selected one; with lambda = 0 every selection after the first has the
\* smallest maximal similarity to the selected ones among those remaining.
C16_MmrBounds ==
    (out.fn = "_mmr" /\ arg.query_vec # NoVector /\ Selectable(arg.candidates) # <<>>) =>
        LET pool == Selectable(arg.candidates)
            sel == out.list
            left(p) == {pool[i] : i \in DOMAIN pool} \ {sel[i] : i \in 1..(p - 1)}
        IN /\ ~out.raised
           /\ Len(sel) = Min(arg.k, Len(pool))
           /\ \A p \in DOMAIN sel : sel[p] \in left(p)
           /\ arg.lambda_param = 10 =>
                \A p \in DOMAIN sel : \A c \in left(p) :
                    SimTo(c, arg.query_vec) <= SimTo(sel[p], arg.query_vec)
           /\ arg.lambda_param = 0 =>
                \A p \in DOMAIN sel : p > 1 =>
                    \A c \in left(p) :
                        MaxSim(sel[p], SubSeq(sel, 1, p - 1)) <= MaxSim(c, SubSeq(sel, 1, p - 1))

\* with lambda = 0, three candidates were selected in another order than
\* the one they were given in
C16_Witness ==
    /\ out.fn = "_mmr"
    /\ arg.lambda_param = 0
    /\ arg.query_vec # NoVector
    /\ Len(out.list) = 3
    /\ out.list # Selectable(arg.candidates)

\* C17 rerank yields a permutation: the output of _llm_rerank holds every
\* submitted candidate once, those named by valid indices first in the
\* order of the answer, the others after them in their prior order; on a
\* failed call or an answer that is no JSON the prior order is kept.
C17_RerankPermutation ==
    out.fn = "_llm_rerank" =>
        LET given == arg.candidates
            named == valid_indices(arg.response.indices, Len(given))
            ids == [i \in DOMAIN out.list |-> out.list[i].id]
        IN IF arg.response.kind = "raise" THEN out.raised
           ELSE IF arg.response.kind = "text" THEN ~out.raised /\ out.list = given
           ELSE /\ ~out.raised
                /\ Len(ids) = Len(given)
                /\ \A c \in DOMAIN given : \E i \in DOMAIN ids : ids[i] = given[c].id
                /\ \A i, j \in DOMAIN ids : ids[i] = ids[j] => i = j
                /\ \A i \in DOMAIN ids : i <= Len(named) => ids[i] = given[named[i] + 1].id
                /\ \A i, j \in DOMAIN ids :
                      (Len(named) < i /\ i < j) =>
                          \E a, b \in DOMAIN given :
                              a < b /\ given[a].id = ids[i] /\ given[b].id = ids[j]

\* C21: a thread in a dense search never pairs the vectors of one build or
\* refresh (the index, the cached matrix) with the id list of another
C21_AtomicSwap ==
    out.fn = "read" => out.vecs_gen = out.ids_gen

\* C22: while no save is under way, an index file and a map file that are
\* both on disk were written by the same build
C22_SidecarConsistent ==
    (/\ \A t \in Threads : \A i \in DOMAIN arg[t].todo :
            arg[t].todo[i].target \notin {"bin", "map"}
     /\ sidecar.bin.state = "saved"
     /\ sidecar.map.state = "saved")
        => hist.bin = hist.map

\* C23: the rows of the cache are selected from the store at most once per
\* 60 seconds
C23_BoundedRefresh ==
    [][(lastop'.op = "select_embeddings" /\ hist.loaded_at >= 0)
          => now - hist.loaded_at >= cache_ttl]_vars

\* the errors the retry policy calls transient: rate limit, connection
\* failure, timeout
Transient == {"RateLimitError", "APIConnectionError", "APITimeoutError"}

\* C24: a call to a configured provider makes at most five attempts; when
\* the provider fails with a transient error the call is attempted again,
\* after waits that never shrink; when it fails with another error the call
\* is attempted once; in every call mode
C24_RetryPolicy ==
    (out.fn \in {"generate_response", "embed"} /\ arg.has_client)
        => /\ out.attempts <= stop_after_attempt
           /\ \A i \in DOMAIN out.waits : \A j \in DOMAIN out.waits :
                  i <= j => out.waits[i] <= out.waits[j]
           /\ (arg.provider.fails >= 1 /\ arg.provider.error \in Transient)
                  => out.attempts = Min(arg.provider.fails + 1, stop_after_attempt)
           /\ (arg.provider.fails >= 1 /\ arg.provider.error \notin Transient)
                  => out.attempts = 1

\* C25: with json_mode, generate_response returns a text that json.loads
\* accepts and does not raise
C25_JsonMode ==
    (out.fn = "generate_response" /\ arg.json_mode)
        => ~out.raised /\ json_loads_ok(out.text)

\* C26: all the embeddings stored under one model have the same vector
\* length
C26_OneDimPerModel ==
    \A k1 \in DOMAIN embeddings : \A k2 \in DOMAIN embeddings :
        k1[2] = k2[2] => embeddings[k1].dim = embeddings[k2].dim

\* C27: however often the file is opened, starting from a fresh file or from
\* any schema version, the migrations applied are those after the starting
\* version, each once and in the order 1, 2, 3; schema_version holds the one
\* row 3; and an open leaves the nodes, the full-text entries, the edges,
\* the embeddings and the file hashes as they were
C27_MigrateOnce ==
    out.fn = "Database" =>
        /\ out.log = [i \in 1..(3 - out.from) |-> out.from + i]
        /\ arg.schema_version = <<3>>
        /\ lastop.op = "Database" =>
              /\ nodes = out.before.nodes
              /\ nodes_fts = out.before.nodes_fts
              /\ edges = out.before.edges
              /\ embeddings = out.before.embeddings
              /\ file_hashes = out.before.file_hashes

\* a file of version 1 that holds nodes has been opened, written to and
\* opened again
C27_Witness ==
    /\ out.fn = "Database"
    /\ lastop.op = "Database"
    /\ out.from = 1
    /\ out.opens >= 2
    /\ out.log = <<2, 3>>
    /\ nodes # <<>>
    /\ \E r \in DOMAIN nodes_fts : nodes_fts[r] >= 2

\* C28: the full-text table holds exactly one row for each id of the nodes
\* table, with the name and the content of that node, and no row for any
\* other id
C28_FtsMirror ==
    /\ \A r \in DOMAIN nodes_fts :
          /\ r.id \in DOMAIN nodes
          /\ r.name = nodes[r.id].name
          /\ r.content = nodes[r.id].content
          /\ nodes_fts[r] = 1
    /\ \A id \in DOMAIN nodes : \E r \in DOMAIN nodes_fts : r.id = id

\* the successful runs of a root
SuccessfulRuns(root) ==
    {id \in DOMAIN index_runs :
        index_runs[id].repo_root = root /\ index_runs[id].status = "success"}

\* C29: get_latest_repo_map(root) returns the payload stored by the run
\* created last among the runs of the root with status success, nothing
\* when there is none, and never the payload of another root or of a run
\* that is pending or failed
C29_LatestRepoMap ==
    lastop.op = "get_latest_repo_map" =>
        LET runs == SuccessfulRuns(arg.repo_root)
            last == CHOOSE id \in runs : \A other \in runs : other <= id
        IN /\ runs = {} => out.payload = NoPayload
           /\ runs # {} => out.payload = repo_map_payload(arg.repo_root, last)
           /\ out.payload # NoPayload =>
                 /\ out.payload.repo_root = arg.repo_root
                 /\ index_runs[out.payload.generated_at].status = "success"

\* the map of a successful run was returned while a later run of the same
\* root has stored its map and is still pending, and a run of the other root
\* has succeeded
C29_Witness ==
    /\ lastop.op = "get_latest_repo_map"
    /\ out.payload # NoPayload
    /\ \E id \in DOMAIN repo_maps :
          /\ id > out.payload.generated_at
          /\ index_runs[id].repo_root = arg.repo_root
          /\ index_runs[id].status = "pending"
    /\ \E id \in DOMAIN index_runs :
          index_runs[id].repo_root # arg.repo_root /\ index_runs[id].status = "success"

\* C30: when the lexical hits and the dense hits of a query are at most k
\* distinct nodes, every one of them is among the results of retrieve,
\* with or without a vector in the cache
C30_BothSources ==
    (out.fn = "retrieve" /\ ~out.raised) =>
        LET k == IF arg.k = 0 THEN retrieval_k ELSE arg.k
            hits == {out.stages.sparse_ids[i] : i \in DOMAIN out.stages.sparse_ids}
                        \cup out.stages.dense_ids
        IN Cardinality(hits) <= k =>
               \A id \in hits : \E i \in DOMAIN out.results : out.results[i].id = id

\* the rules of a walk: the defaults, the deny globs and every line of the
\* .gitignore of the root
IgnoreRules == list_of(default_ignores \cup arg.deny_globs) \o arg.gitignore.lines

\* a path is excluded by the rules when the rules match it or one of the
\* directories above it
Excluded(path) ==
    \E n \in 1..Len(path) :
        \/ is_ignored(IgnoreRules, SubSeq(path, 1, n))
        \/ n < Len(path) /\ path[n] \in next_ignore_dirs

\* C31: no file excluded by the ignore rules, or lying below an excluded
\* directory, is handed to _process_file, and no excluded directory is
\* descended into
C31_IgnoreRules ==
    out.fn = "walk" =>
        /\ \A p \in out.files_to_process : ~Excluded(p)
        /\ \A d \in out.visited : d # <<>> => ~Excluded(d)

\* the same for a .gitignore that was read
C31_ReadableHolds ==
    (out.fn = "walk" /\ arg.gitignore.decodable) => C31_IgnoreRules

\* a task of this pass that re-indexed a source file whose parse failed
ParseFailed(f) ==
    /\ supported_extensions(f) # None
    /\ task[f].pc = "done"
    /\ task[f].should_index
    /\ ParseRaises(task[f].content)

\* C32: a source file whose parse fails is stored as exactly one node, the
\* whole-file node of kind text; its hash is recorded; the pass goes on, and
\* when it returns the file is counted as indexed and every other file that
\* did not fail was processed.
C32_ParseFallback ==
    \A f \in Files : ParseFailed(f) =>
        /\ {nodes[id] : id \in IdsOfFile(f)} =
               {create_node(f, task[f].content, 0, NumLines(task[f].content), "text", "file")}
        /\ get_file_hash(f) = sha256(task[f].content)
        /\ Returned =>
             /\ f \in Present \ Failed
             /\ stats.indexed = Cardinality({g \in Present \ Failed : task[g].should_index})
             /\ \A g \in Present \ Failed : task[g].pc = "done"

\* a pass that returned after the parse of one file failed and another file
\* was indexed
C32_Witness ==
    /\ Returned
    /\ \E f \in Files : ParseFailed(f) /\ \E g \in Files \ {f} : task[g].pc = "done" /\ task[g].should_index

\* the ids of the batches still to embed
Batched == UNION {batches[i] : i \in DOMAIN batches}
\* the chunks of the store that have no vector of the active model
Unembedded == {id \in DOMAIN nodes : nodes[id].type # "file" /\ <<id, embeddings_model>> \notin DOMAIN embeddings}

\* C33: a failed embedding batch is dropped and nothing else: its chunks stay
\* without vectors, the batches after it are still embedded and persisted,
\* and the pass returns its statistics; the sweep of every pass with a
\* provider takes all chunks that lack a vector, those a failed batch of an
\* earlier pass left behind and whose files are now skipped included.
C33_BatchFailureContained ==
    [][/\ lastop'.op = "embed_failed" =>
            /\ pc' = "embed"
            /\ batches' = Tail(batches)
            /\ embeddings' = embeddings
       /\ (hist.batch_failed /\ lastop'.op = "upsert_embeddings_batch") =>
            /\ Head(batches) # {}
            /\ \A id \in Head(batches) : <<id, embeddings_model>> \in DOMAIN embeddings'
            /\ \A id \in Unembedded \ Batched : <<id, embeddings_model>> \notin DOMAIN embeddings'
       /\ (hist.batch_failed /\ lastop'.by = "coordinator" /\ lastop'.op \in {"return", "raise"}) =>
            \/ result' = [status |-> "returned", stats |-> stats]
            \/ hist'.coord_fault
       /\ (lastop'.op = "get_chunks_without_embeddings" /\ client) =>
            /\ UNION {batches'[i] : i \in DOMAIN batches'} = Unembedded
            /\ \A i \in DOMAIN batches' : batches'[i] # {}
      ]_vars

\* the sweep of a second pass takes a chunk that a failed batch of the first
\* pass left without a vector and whose file the second pass skipped
C33_Witness ==
    /\ lastop.op = "get_chunks_without_embeddings"
    /\ hist.prev_done /\ hist.prev_errors = 0 /\ stats.errors = 0
    /\ budget.faults = 1
    /\ \E id \in Batched : id \in DOMAIN hist.nodes /\ ~task[id[1]].should_index

\* after a batch failed another batch of the same sweep was persisted, and
\* the pass returned
C33_WitnessOthers ==
    /\ Returned
    /\ hist.batch_failed
    /\ Unembedded # {}
    /\ \E id \in DOMAIN nodes : <<id, embeddings_model>> \in DOMAIN embeddings
                                  /\ <<id, embeddings_model>> \notin DOMAIN hist.embeddings

\* the seed and the hop that justify an added result x: the node is named
\* as a type the seed uses, at 0.4 of the seed's score, or it calls the
\* seed's name, at 0.5
Justifies(seed, x) ==
    \/ /\ x.score = (seed.score * 4) \div 10
       /\ \E e \in edges : /\ e[1] = seed.id /\ e[3] = "uses_type" /\ IsSymRef(e[2])
                            /\ nodes[x.id].name = SymName(e[2])
    \/ /\ x.score = (seed.score * 5) \div 10
       /\ \E e \in edges : /\ e[1] = x.id /\ e[3] = "calls" /\ IsSymRef(e[2])
                            /\ SymName(e[2]) = nodes[seed.id].name

\* C34: every node the expansion adds is stored, is not among the
\* candidates, is added once, and is the definition of a type used by, or a
\* caller of, one of the first five candidates, at that seed's score times
\* 0.4 or 0.5.
C34_GraphExpansion ==
    out.fn = "_expand_graph" =>
        \A i \in DOMAIN out.list :
            /\ out.list[i].id \in DOMAIN nodes
            /\ out.list[i].id \notin IdsOf(arg.candidates)
            /\ \A j \in DOMAIN out.list : out.list[j].id = out.list[i].id => j = i
            /\ \E s \in 1..Min(5, Len(arg.candidates)) :
                   /\ Justifies(arg.candidates[s], out.list[i])
                   /\ out.list[i].score < arg.candidates[s].score

\* one node was added for a list whose last candidate, which is no seed, is
\* called by a node outside the list
C34_Witness ==
    /\ out.fn = "_expand_graph"
    /\ Len(arg.candidates) = MaxCandidates
    /\ Len(out.list) = 1
    /\ \E x \in DOMAIN nodes \ IdsOf(arg.candidates) :
           Justifies(arg.candidates[MaxCandidates],
                     [id |-> x, score |-> (arg.candidates[MaxCandidates].score * 5) \div 10])

\* the tasks of the running hybrid_search that have not finished
Unfinished == {t \in DOMAIN out.status : out.status[t] # "done"}

\* C35: the sparse tasks run while the embedding is awaited and beside the
\* dense tasks; the fusion starts only when every search task has completed,
\* and the fused ranking is the fusion of the lists of all tasks in the
\* order of their creation, in whatever order they finished.
C35_BarrierBeforeFusion ==
    (out.fn = "hybrid_search" /\ out.pc \in {"fusion", "fused"}) =>
        /\ Unfinished = {}
        /\ DOMAIN out.status = HybridTasks(arg.nq, arg.hyde)
        /\ Range(out.order) = DOMAIN out.status
        /\ out.pc = "fused" =>
              out.list = rrf_fuse(gather_results(arg.results, dense_tasks(arg.nq, arg.hyde))
                                    \o gather_results(arg.results, sparse_tasks(arg.nq)))

\* a fused call whose last sparse task finished after a dense task and whose
\* first dense task finished last
C35_Witness ==
    /\ out.fn = "hybrid_search" /\ out.pc = "fused"
    /\ out.order[1] = <<"dense", 2>>
    /\ out.order[Len(out.order)] = <<"dense", 1>>
    /\ \E i, j \in DOMAIN out.order : i < j /\ out.order[i][1] = "dense" /\ out.order[j][1] = "sparse"
    /\ out.list # <<>>

\* a sparse and a dense task run at the same time
C35_Concurrent ==
    /\ out.fn = "hybrid_search"
    /\ \E t, u \in DOMAIN out.status : t[1] = "sparse" /\ u[1] = "dense"
                                        /\ out.status[t] = "running" /\ out.status[u] = "running"

\* C36: between passes, a file whose stored hash is the hash of its current
\* content has every node parsed from that content in the store.
C36_HashImpliesNodes ==
    pc = "idle" =>
        \A f \in Files :
            (fs[f] # Absent /\ get_file_hash(f) = sha256(fs[f])) =>
                \A n \in parse_file_content(f, fs[f]).nodes : get_node(n.id) = NodeRow(n)

Sized == {f \in Files : hist.start_fs[f] # Absent /\ ~getsize_raises(hist.start_fs[f])}
CountedIndexed == {f \in Sized : task[f].pc = "done" /\ task[f].should_index}
CountedSkipped == {f \in Sized : (task[f].pc = "done" /\ ~task[f].should_index)
                                     \/ (task[f].pc = "none" /\ too_large(hist.start_fs[f]))}
CountedErrors == {f \in Sized : task[f].pc = "failed"}

\* C38: when a pass returns, every file of the tree whose size could be read
\* is in exactly one of three classes, the statistics are the sizes of the
\* classes, and every file counted as indexed had its nodes and hash written
\* by its task.
C38_StatisticsPartition ==
    Returned =>
        /\ CountedIndexed \cup CountedSkipped \cup CountedErrors = Sized
        /\ stats.indexed = Cardinality(CountedIndexed)
        /\ stats.skipped = Cardinality(CountedSkipped)
        /\ stats.errors = Cardinality(CountedErrors)
        /\ stats.indexed + stats.skipped + stats.errors = Cardinality(Sized)
        /\ \A f \in CountedIndexed : NewStored(f)
        /\ \A f \in Files \ Sized : task[f].pc = "none"

\* a returned pass over a file over the size cap and an indexed file
C38_Witness ==
    /\ Returned
    /\ \E f \in Sized : too_large(hist.start_fs[f])
    /\ stats.indexed = 1 /\ stats.skipped = 1

\* a returned pass over an entry whose size cannot be read
C38_WitnessUnread ==
    /\ Returned
    /\ \E f \in Files : getsize_raises(hist.start_fs[f])
    /\ stats.indexed + stats.errors = 1

\* C39: a retrieve that returns gives at most k results (the configured
\* retrieval_k when k is left out), names no node twice, and names stored
\* nodes only.
C39_ResultShape ==
    (out.fn = "retrieve" /\ ~out.raised) =>
        /\ Len(out.results) <= (IF arg.k = 0 THEN retrieval_k ELSE arg.k)
        /\ \A i, j \in DOMAIN out.results : out.results[i].id = out.results[j].id => i = j
        /\ \A i \in DOMAIN out.results : out.results[i].id \in DOMAIN nodes

\* the same for the answers of the LLM that name no index twice
C39_DistinctIndicesHold ==
    (out.fn = "retrieve" /\ ~out.raised /\ arg.llm # LlmJson(<<0, 0>>)) =>
        /\ Len(out.results) <= (IF arg.k = 0 THEN retrieval_k ELSE arg.k)
        /\ \A i, j \in DOMAIN out.results : out.results[i].id = out.results[j].id => i = j
        /\ \A i \in DOMAIN out.results : out.results[i].id \in DOMAIN nodes

\* the indexer has saved both files of a rebuild made after the build the
\* retriever's index handle holds
RebuiltAfterLoad ==
    /\ engine.ann_index.built
    /\ arg["indexer"] = IdleThread
    /\ budget.passes >= 1
    /\ sidecar.bin.state = "saved" /\ sidecar.map.state = "saved"
    /\ hist.bin = hist.map
    /\ hist.index < hist.bin

\* a dense search is about to answer from the vectors and ids of the saved
\* sidecar
AnswersFromRebuilt ==
    /\ arg["search"].at = "query"
    /\ arg["search"].todo = <<>>
    /\ engine.ann_index.vecs = sidecar.bin.rows
    /\ engine.ann_index.id_map = sidecar.map.rows

\* C40: once the indexer has rebuilt the sidecar after the retriever loaded
\* its index handle, a dense search of that retriever eventually answers
\* from the rebuilt vectors.
C40_DenseFreshness ==
    RebuiltAfterLoad ~> AnswersFromRebuilt
====
